---------------------------- MODULE Spec2Model ----------------------------
(***************************************************************************)
(* Model of the relay-facing request handler of the server                 *)
(* (src/app/server/src/nostr_handler.rs): the notification loop of         *)
(* NostrHandler::start_listening, the request filter                       *)
(* is_balancebridge_request, handle_event and process_bitcoin_lookup,      *)
(* with the chain indexer (src/app/server/src/electrs.rs) and the relays   *)
(* as the environment.                                                     *)
(*                                                                         *)
(* One behaviour is one run of the listening loop.  Every await of the     *)
(* code is a step of its own, so the indexer calls of one request and its  *)
(* publish are separate, ordered steps.                                    *)
(***************************************************************************)
EXTENDS Integers, Sequences, FiniteSets, TLC

(***************************************************************************)
(* Program constants.                                                      *)
(***************************************************************************)
BALANCEBRIDGE_REQUEST_KIND == 30078
BALANCEBRIDGE_RESPONSE_KIND == 30079

(***************************************************************************)
(* Bounds of the model.                                                    *)
(*   MaxTags        longest tag list of an inbound event                   *)
(*   MaxDeliveries  well-formed requests delivered in one behaviour        *)
(*   GapLimit       addresses derived from an extended public key; the     *)
(*                  source passes 20 (derive_addresses(query, 20)), the    *)
(*                  model derives GapLimit of them                         *)
(*   MaxAddresses   longest address list given to                          *)
(*                  get_addresses_balance_and_txs                          *)
(*   MaxRelays      longest relay list given to NostrHandler::new          *)
(*   MaxScanTags    most tags on an event where the two scans of the tags  *)
(*                  for the correlation id are compared                    *)
(***************************************************************************)
MaxTags == 2
MaxDeliveries == 2
GapLimit == 2
MaxAddresses == 2
MaxRelays == 3
MaxScanTags == 3

(***************************************************************************)
(* State.                                                                  *)
(*   pc             where the listening task stands                        *)
(*   notification   the notification of the current loop iteration         *)
(*   req_id, request_type, query           locals of handle_event          *)
(*   addresses, next_address, total_confirmed, total_unconfirmed,          *)
(*   all_txids, balance, lookup_result     locals of process_bitcoin_lookup*)
(*   response       the response event built by handle_event               *)
(*   returned       what handle_event returned to the loop                 *)
(*   log            the last line the iteration logged                     *)
(*   calls          the indexer calls of the current iteration, in order   *)
(*   sends          the send_event calls of the current iteration          *)
(*   delivered, lookups, responses   per correlation id: well-formed       *)
(*                  requests received, lookups started, responses handed   *)
(*                  to send_event                                          *)
(*   started, submitted    the correlation ids of the requests whose       *)
(*                  lookup was started and of the responses handed to      *)
(*                  send_event, each in order                              *)
(*   pairing        the record the pairing manager stores                  *)
(*   indexer_txs    the answer of the indexer to get_address_txs for each  *)
(*                  address, where a property compares two runs against    *)
(*                  the same indexer                                       *)
(*   interrupted    an earlier iteration of the loop ended in a receive    *)
(*                  error or a shutdown notice of the relay pool           *)
(*   all_transactions   local of get_addresses_balance_and_txs             *)
(*   relay_urls, next_relay, added_count, subscribed, new_result           *)
(*                  NostrHandler::new: its relay list, its place in the    *)
(*                  list, the relays added, whether the subscription was   *)
(*                  made, and what it returned                             *)
(*   pool           the relays of the client's pool                        *)
(*   ns_pc          where the supervised request/response loop of main     *)
(*                  stands                                                 *)
(***************************************************************************)
VARIABLES pc, notification, req_id, request_type, query, addresses,
          next_address, total_confirmed, total_unconfirmed, all_txids,
          balance, lookup_result, response, returned, log, calls, sends,
          delivered, lookups, responses, started, submitted, interrupted,
          pairing, indexer_txs, all_transactions,
          relay_urls, next_relay, added_count, pool, subscribed, new_result,
          ns_pc

(***************************************************************************)
(* Identities.  A public key is an abstract value; to_hex is the hex       *)
(* string the tags carry.                                                  *)
(***************************************************************************)
ServerKey == "key:server"
OtherServerKey == "key:other-server"
ClientKeys == {"key:alice", "key:bob"}

to_hex(pk) ==
    CASE pk = "key:server" -> "5e7f"
      [] pk = "key:other-server" -> "07e4"
      [] pk = "key:alice" -> "a11c"
      [] pk = "key:bob" -> "b0b0"
      [] OTHER -> "0000"

(***************************************************************************)
(* Tags.  A tag is a sequence of strings, its first element the tag kind.  *)
(***************************************************************************)
ReqIds == {"r1", "r2"}

TagPool ==
    {<<"req", r>> : r \in ReqIds}
        \cup {<<"req">>}
        \cup {<<"p", to_hex(ServerKey)>>, <<"p", to_hex(OtherServerKey)>>}
        \cup {<<"e", "r1">>}

TagLists == UNION {[1..n -> TagPool] : n \in 0..MaxTags}

PlainTagLists == {<<<<"p", to_hex(ServerKey)>>, <<"req", r>>>> : r \in ReqIds}

(***************************************************************************)
(* Event bodies, as the strings the relays deliver, and serde_json's       *)
(* reading of each.  A JSON value is [t, v, fields]: its type, its text    *)
(* (strings and numbers) and its members (objects).                        *)
(***************************************************************************)
GoodAddress == "bc1qw508d6qejxtdg4y5r3"
OtherAddress == "bc1qrp33g0q5c5txsp9arysrx4k6"
GoodXpub == "zpub6rFR7y4Q2AijBEqTUqu"
BadXpub == "zpub6rFR7y4Q2AijBEqTUqX"
Garbage == "hello"
\* The strings are cut short; BadXpub stands for an extended key whose checksum
\* is wrong.

BodyAddress == "{\"type\":\"bitcoin_lookup\",\"query\":\"bc1qw508d6qejxtdg4y5r3\"}"
BodyXpub == "{\"type\":\"bitcoin_lookup\",\"query\":\"zpub6rFR7y4Q2AijBEqTUqu\"}"
BodyBadXpub == "{\"type\":\"bitcoin_lookup\",\"query\":\"zpub6rFR7y4Q2AijBEqTUqX\"}"
BodyGarbageQuery == "{\"type\":\"bitcoin_lookup\",\"query\":\"hello\"}"
BodyNoQuery == "{\"type\":\"bitcoin_lookup\"}"
BodyNumberQuery == "{\"type\":\"bitcoin_lookup\",\"query\":7}"
BodyFees == "{\"type\":\"get_fees\"}"
BodyFeesWithQuery == "{\"type\":\"get_fees\",\"query\":\"bc1qw508d6qejxtdg4y5r3\"}"
BodyBroadcast == "{\"type\":\"broadcast_tx\",\"txHex\":\"0200\"}"
BodyUtxos == "{\"type\":\"get_utxos\",\"addresses\":[\"bc1qw508d6qejxtdg4y5r3\"]}"
BodyUnknownType == "{\"type\":\"frobnicate\",\"query\":\"bc1qw508d6qejxtdg4y5r3\"}"
BodyNoType == "{\"query\":\"bc1qw508d6qejxtdg4y5r3\"}"
BodyNumberType == "{\"type\":5,\"query\":\"bc1qw508d6qejxtdg4y5r3\"}"
BodyArray == "[]"
BodyNotJson == "type=bitcoin_lookup"
BodyTruncated == "{\"type\":\"bitcoin_lookup\""

\* The text of a response of the server, as a relay hands it back.
BodyResponse == "{\"type\":\"bitcoin_lookup_response\",\"req\":\"r1\",\"status\":\"error\",\"error\":\"Invalid query: not an address or xpub\"}"

XpubBodies == {BodyXpub}

Bodies ==
    {BodyAddress, BodyXpub, BodyBadXpub, BodyGarbageQuery, BodyNoQuery,
     BodyNumberQuery, BodyFees, BodyFeesWithQuery, BodyBroadcast, BodyUtxos,
     BodyUnknownType, BodyNoType, BodyNumberType, BodyArray, BodyNotJson,
     BodyTruncated}

JString(s) == [t |-> "string", v |-> s, fields |-> <<>>]
JNumber(s) == [t |-> "number", v |-> s, fields |-> <<>>]
JArray(s) == [t |-> "array", v |-> s, fields |-> <<>>]
JObject(f) == [t |-> "object", v |-> "", fields |-> f]
JsonError == [t |-> "error", v |-> "", fields |-> <<>>]

\* The JSON value each body of the model denotes, or JsonError when the body
\* is not JSON.
json_value_of(content) ==
    CASE content = BodyAddress ->
            JObject([type |-> JString("bitcoin_lookup"), query |-> JString(GoodAddress)])
      [] content = BodyXpub ->
            JObject([type |-> JString("bitcoin_lookup"), query |-> JString(GoodXpub)])
      [] content = BodyBadXpub ->
            JObject([type |-> JString("bitcoin_lookup"), query |-> JString(BadXpub)])
      [] content = BodyGarbageQuery ->
            JObject([type |-> JString("bitcoin_lookup"), query |-> JString(Garbage)])
      [] content = BodyNoQuery ->
            JObject([type |-> JString("bitcoin_lookup")])
      [] content = BodyNumberQuery ->
            JObject([type |-> JString("bitcoin_lookup"), query |-> JNumber("7")])
      [] content = BodyFees ->
            JObject([type |-> JString("get_fees")])
      [] content = BodyFeesWithQuery ->
            JObject([type |-> JString("get_fees"), query |-> JString(GoodAddress)])
      [] content = BodyBroadcast ->
            JObject([type |-> JString("broadcast_tx"), txHex |-> JString("0200")])
      [] content = BodyUtxos ->
            JObject([type |-> JString("get_utxos"), addresses |-> JArray(GoodAddress)])
      [] content = BodyUnknownType ->
            JObject([type |-> JString("frobnicate"), query |-> JString(GoodAddress)])
      [] content = BodyNoType ->
            JObject([query |-> JString(GoodAddress)])
      [] content = BodyNumberType ->
            JObject([type |-> JNumber("5"), query |-> JString(GoodAddress)])
      [] content = BodyArray -> JArray("")
      [] content = BodyResponse ->
            JObject([type |-> JString("bitcoin_lookup_response"), req |-> JString("r1"),
                     status |-> JString("error"),
                     error |-> JString("Invalid query: not an address or xpub")])
      [] OTHER -> JsonError

\* A lenient parse: a body that is not JSON reads as the empty object.
from_str_or_default(content) ==
    IF json_value_of(content).t = "error"
    THEN JObject([k \in {} |-> JsonError])
    ELSE json_value_of(content)

\* serde_json::from_str(&event.content)
from_str(content) == json_value_of(content)

\* Value::get(key).and_then(|v| v.as_str()).unwrap_or(default)
get_str_or(value, key, default) ==
    IF value.t = "object" /\ key \in DOMAIN value.fields
        /\ value.fields[key].t = "string"
    THEN value.fields[key].v
    ELSE default

(***************************************************************************)
(* Events and relay notifications.                                         *)
(***************************************************************************)
Kinds == {BALANCEBRIDGE_REQUEST_KIND, BALANCEBRIDGE_RESPONSE_KIND}

NoEvent == [kind |-> 0, pubkey |-> "key:none", tags |-> <<>>, content |-> ""]

\* The events the relays deliver.  A request for an extended public key comes
\* with the plain two-tag list only; every other body comes with every tag list.
Events ==
    {e \in [kind : Kinds, pubkey : ClientKeys, tags : TagLists, content : Bodies] :
        e.content \in XpubBodies => e.tags \in PlainTagLists}

NoNotification == [type |-> "None", event |-> NoEvent]

(***************************************************************************)
(* Option<String> and Result<T> of the code.                               *)
(***************************************************************************)
None == [some |-> FALSE, value |-> ""]
Some(v) == [some |-> TRUE, value |-> v]

Ok(v) == [ok |-> TRUE, value |-> v, error |-> ""]
Err(msg) == [ok |-> FALSE, value |-> <<>>, error |-> msg]

(***************************************************************************)
(* is_balancebridge_request: one pass over the tags, keeping the value of  *)
(* the last "req" tag and whether some "p" tag names this server; tags of  *)
(* fewer than two elements are skipped.                                    *)
(***************************************************************************)
RECURSIVE request_tag_scan(_, _, _, _)
request_tag_scan(tags, server_hex, req, p_match) ==
    IF tags = <<>>
    THEN [req_id |-> req, p_match |-> p_match]
    ELSE LET tag_vec == Head(tags)
         IN  IF Len(tag_vec) < 2
             THEN request_tag_scan(Tail(tags), server_hex, req, p_match)
             ELSE CASE tag_vec[1] = "req" ->
                         request_tag_scan(Tail(tags), server_hex, Some(tag_vec[2]), p_match)
                    [] tag_vec[1] = "p" ->
                         request_tag_scan(Tail(tags), server_hex, req,
                                          p_match \/ tag_vec[2] = server_hex)
                    [] OTHER ->
                         request_tag_scan(Tail(tags), server_hex, req, p_match)

\* Variant: an event without a "req" tag gets a generated id, as in
\* extract_request_id.
is_balancebridge_request_with_fallback_id(event, server_pubkey) ==
    LET scan == request_tag_scan(event.tags, to_hex(server_pubkey), None, FALSE)
    IN  IF scan.p_match
        THEN IF scan.req_id.some THEN scan.req_id ELSE Some("req_generated")
        ELSE None

\* Variant: the recipient is not checked.
is_balancebridge_request_any_recipient(event, server_pubkey) ==
    request_tag_scan(event.tags, to_hex(server_pubkey), None, FALSE).req_id

\* Variant: a correlation id already answered is not accepted again.
is_balancebridge_request_once(event, server_pubkey) ==
    LET scan == request_tag_scan(event.tags, to_hex(server_pubkey), None, FALSE)
        seen == scan.req_id.some /\ scan.req_id.value \in DOMAIN responses
                    /\ responses[scan.req_id.value] > 0
    IN  IF scan.p_match /\ ~seen THEN scan.req_id ELSE None

is_balancebridge_request(event, server_pubkey) ==
    LET scan == request_tag_scan(event.tags, to_hex(server_pubkey), None, FALSE)
    IN  IF scan.p_match THEN scan.req_id ELSE None

(***************************************************************************)
(* handle_event's own extraction of the "req" tag (its first loop).        *)
(***************************************************************************)
\* Variant: the first "req" tag of two or more elements is the one kept.
extract_req_tag_first_wins(tags, req) ==
    LET found == {i \in DOMAIN tags : Len(tags[i]) >= 2 /\ tags[i][1] = "req"}
    IN  IF found = {} THEN req
        ELSE Some(tags[CHOOSE i \in found : \A j \in found : i <= j][2])

RECURSIVE extract_req_tag(_, _)
extract_req_tag(tags, req) ==
    IF tags = <<>>
    THEN req
    ELSE LET parts == Head(tags)
         IN  IF Len(parts) >= 2 /\ parts[1] = "req"
             THEN extract_req_tag(Tail(tags), Some(parts[2]))
             ELSE extract_req_tag(Tail(tags), req)

(***************************************************************************)
(* The xpub module: query classification and address derivation.           *)
(***************************************************************************)
\* The query starts with a known extended-public-key prefix.
is_xpub(q) == q \in {GoodXpub, BadXpub}

\* The query is a supported address encoding.
is_bitcoin_address(q) == q \in {GoodAddress}

\* The address at index i (from 0) of the receive chain of an extended key.
derived_address(xpub, i) == "bc1q:" \o xpub \o "/0/" \o ToString(i)

\* derive(xkey, gap_limit): gap_limit addresses in index order, or an error
\* when the key fails validation.
derive_addresses(xpub, count) ==
    IF xpub = GoodXpub
    THEN Ok([i \in 1..count |-> derived_address(xpub, i - 1)])
    ELSE Err("Invalid xpub")

(***************************************************************************)
(* The indexer.  An HTTP exchange ends in a connection failure, a           *)
(* non-success status, an unreadable body or a body that parses; or the    *)
(* indexer never answers it.                                               *)
(***************************************************************************)
HttpFailed == [answered |-> TRUE, connected |-> FALSE, status |-> 0, parses |-> FALSE, confirmed |-> 0, unconfirmed |-> 0]
HttpStatus(code) == [answered |-> TRUE, connected |-> TRUE, status |-> code, parses |-> FALSE, confirmed |-> 0, unconfirmed |-> 0]
HttpBalance(c, u) == [answered |-> TRUE, connected |-> TRUE, status |-> 200, parses |-> TRUE, confirmed |-> c, unconfirmed |-> u]
HttpHang == [answered |-> FALSE, connected |-> TRUE, status |-> 0, parses |-> FALSE, confirmed |-> 0, unconfirmed |-> 0]

\* What the indexer may do with a balance request.
BalanceReplies == {HttpFailed, HttpStatus(500), HttpBalance(5000, 0), HttpBalance(1, 2), HttpHang}

\* Variant: a client built without a timeout waits for the answer.
send_without_timeout(http) == http

\* self.client.get(&url).send().await with the client of ElectrsClient::new,
\* built with timeout(Duration::from_secs(30)): an exchange the indexer does
\* not answer ends after the timeout as a failed exchange.
send(http) == IF http.answered THEN http ELSE HttpFailed

is_success(status) == status >= 200 /\ status <= 299

\* The call has not returned: its future is still pending.
Pending == [ok |-> FALSE, value |-> <<>>, error |-> "pending"]

\* ElectrsClient::get_address_balance, given the HTTP exchange.
get_address_balance(http) ==
    LET exchange == send(http)
    IN  IF ~exchange.answered THEN Pending
        ELSE IF ~exchange.connected THEN Err("Failed to connect to Electrs")
        ELSE IF ~is_success(exchange.status) THEN Err("Electrs returned error")
        ELSE IF ~exchange.parses THEN Err("Failed to parse Electrs balance response")
        ELSE Ok([confirmed |-> exchange.confirmed, unconfirmed |-> exchange.unconfirmed])

\* Transaction ids and their order (the order of the strings).
Txids == {"aa11", "bb22"}
txid_rank(t) == CASE t = "aa11" -> 1 [] t = "bb22" -> 2 [] OTHER -> 0

\* What get_address_txs may return: a failure, or the history of the address
\* in the indexer's order.
TxsReplies == {Err("Failed to connect to Electrs"), Ok(<<>>), Ok(<<"bb22", "aa11">>), Ok(<<"aa11">>)}

(***************************************************************************)
(* Vec::sort and Vec::dedup on transaction ids.                            *)
(***************************************************************************)
RECURSIVE insert_sorted(_, _)
insert_sorted(sorted, t) ==
    IF sorted = <<>> THEN <<t>>
    ELSE IF txid_rank(t) < txid_rank(Head(sorted))
         THEN <<t>> \o sorted
         ELSE <<Head(sorted)>> \o insert_sorted(Tail(sorted), t)

\* Variant: the ids stay in the order the indexer returned them in.
sort_as_received(v) == v

RECURSIVE sort(_)
sort(v) ==
    IF v = <<>> THEN <<>>
    ELSE insert_sorted(sort(SubSeq(v, 1, Len(v) - 1)), v[Len(v)])

\* dedup removes every element equal to the one before it.
RECURSIVE dedup(_)
dedup(v) ==
    IF Len(v) < 2 THEN v
    ELSE LET rest == dedup(Tail(v))
         IN  IF Head(v) = Head(rest) THEN rest ELSE <<Head(v)>> \o rest

TransactionInfo(txid) == [txid |-> txid, timestamp |-> 0, amount |-> 0, confirmations |-> 1]

\* Variant: the two balances change places.
BitcoinLookupResponse_swapped(q, confirmed, unconfirmed, txids) ==
    [response_type |-> "bitcoin_lookup_result",
     query |-> q,
     confirmed_balance |-> unconfirmed,
     unconfirmed_balance |-> confirmed,
     transactions |-> [i \in 1..Len(txids) |-> TransactionInfo(txids[i])]]

\* BitcoinLookupResponse::new(query) with the three fields the lookup sets.
BitcoinLookupResponse(q, confirmed, unconfirmed, txids) ==
    [response_type |-> "bitcoin_lookup_result",
     query |-> q,
     confirmed_balance |-> confirmed,
     unconfirmed_balance |-> unconfirmed,
     transactions |-> [i \in 1..Len(txids) |-> TransactionInfo(txids[i])]]

(***************************************************************************)
(* The response: its JSON payload and the signed event that carries it.    *)
(***************************************************************************)
\* Variant: the error payload does not echo the correlation id.
response_json_error_without_req(id, result) ==
    IF result.ok
    THEN [type |-> "bitcoin_lookup_response",
          req |-> id,
          status |-> "ok",
          result |-> [query |-> result.value.query,
                      confirmed_balance |-> result.value.confirmed_balance,
                      unconfirmed_balance |-> result.value.unconfirmed_balance,
                      transactions |-> result.value.transactions]]
    ELSE [type |-> "bitcoin_lookup_response",
          req |-> "",
          status |-> "error",
          error |-> result.error]

response_json(id, result) ==
    IF result.ok
    THEN [type |-> "bitcoin_lookup_response",
          req |-> id,
          status |-> "ok",
          result |-> [query |-> result.value.query,
                      confirmed_balance |-> result.value.confirmed_balance,
                      unconfirmed_balance |-> result.value.unconfirmed_balance,
                      transactions |-> result.value.transactions]]
    ELSE [type |-> "bitcoin_lookup_response",
          req |-> id,
          status |-> "error",
          error |-> result.error]

\* The text of a JSON value (Value::to_string): the event content.
to_string(json) == [json_text_of |-> json]

\* Variant: the "p" tag of the response is copied from the first "p" tag of
\* the request, which names the server.
build_response_event_echoing_recipient(event, id, json, keys) ==
    [kind |-> BALANCEBRIDGE_RESPONSE_KIND,
     pubkey |-> keys,
     tags |-> << <<"p", to_hex(keys)>>, <<"req", id>> >>,
     content |-> to_string(json)]

\* Variant: the response is published with the kind of the requests.
build_response_event_of_request_kind(event, id, json, keys) ==
    [kind |-> BALANCEBRIDGE_REQUEST_KIND,
     pubkey |-> keys,
     tags |-> << <<"p", to_hex(event.pubkey)>>, <<"req", id>> >>,
     content |-> to_string(json)]

\* EventBuilder::new(kind, content).tag(p).tag(req).sign_with_keys(keys)
build_response_event(event, id, json, keys) ==
    [kind |-> BALANCEBRIDGE_RESPONSE_KIND,
     pubkey |-> keys,
     tags |-> << <<"p", to_hex(event.pubkey)>>, <<"req", id>> >>,
     content |-> to_string(json)]

\* Responses of the server to its clients as a relay hands them back on the
\* notification stream (the loop looks at the kind of every event it is
\* given, whatever the subscription asked for): the event
\* build_response_event makes, its content as text.
PublishedResponses ==
    {[build_response_event([NoEvent EXCEPT !.pubkey = c], "r1", BodyResponse, ServerKey)
          EXCEPT !.content = BodyResponse] : c \in ClientKeys}

\* What notifications.recv() returns: an event, a relay message, the pool's
\* shutdown notice, or a receive error.
Notifications ==
    {[type |-> "Event", event |-> e] : e \in Events \cup PublishedResponses}
        \cup {[type |-> t, event |-> NoEvent] : t \in {"Message", "Shutdown", "RecvError"}}

(***************************************************************************)
(* What the claims speak of, stated on the event itself and independently  *)
(* of the scans above.                                                     *)
(***************************************************************************)
ReqTagPositions(e) == {i \in DOMAIN e.tags : Len(e.tags[i]) >= 2 /\ e.tags[i][1] = "req"}

HasCorrelationTag(e) == ReqTagPositions(e) # {}

\* The correlation id of an event that has one: the value of its last "req" tag.
CorrelationId(e) ==
    LET last == CHOOSE i \in ReqTagPositions(e) : \A j \in ReqTagPositions(e) : j <= i
    IN  e.tags[last][2]

AddressedTo(e, pk) ==
    \E i \in DOMAIN e.tags :
        Len(e.tags[i]) >= 2 /\ e.tags[i][1] = "p" /\ e.tags[i][2] = to_hex(pk)

IsJson(content) == json_value_of(content).t # "error"

\* A request this server has to answer.
IsWellFormedRequest(e) ==
    /\ e.kind = BALANCEBRIDGE_REQUEST_KIND
    /\ AddressedTo(e, ServerKey)
    /\ HasCorrelationTag(e)
    /\ IsJson(e.content)

RECURSIVE SumOver(_, _)
SumOver(f, S) ==
    IF S = {} THEN 0
    ELSE LET x == CHOOSE y \in S : TRUE IN f[x] + SumOver(f, S \ {x})

Total(counter) == SumOver(counter, DOMAIN counter)

Bump(counter, key) ==
    IF key \in DOMAIN counter THEN [counter EXCEPT ![key] = @ + 1] ELSE counter

vars == <<pc, notification, req_id, request_type, query, addresses,
          next_address, total_confirmed, total_unconfirmed, all_txids,
          balance, lookup_result, response, returned, log, calls, sends,
          delivered, lookups, responses, started, submitted, interrupted,
          pairing, indexer_txs, all_transactions,
          relay_urls, next_relay, added_count, pool, subscribed, new_result,
          ns_pc>>

event_locals == <<req_id, request_type, query>>
lookup_locals == <<addresses, next_address, total_confirmed, total_unconfirmed,
                   all_txids, balance, lookup_result>>
counters == <<delivered, lookups, responses, started, submitted>>
startup_vars == <<relay_urls, next_relay, added_count, pool, subscribed, new_result,
                  ns_pc>>
electrs_locals == <<all_transactions>>

NoResponse ==
    [kind |-> 0, pubkey |-> "key:none", tags |-> <<>>,
     content |-> [json_text_of |-> [type |-> "none"]]]
NoResult == Err("none")

\* No answer of the indexer has been fixed in advance.
NoAnswers == [a \in {GoodAddress, OtherAddress} |-> Err("none")]

\* The pairing record before any client has paired.
NoPairing == [android_pubkey |-> None, relays |-> <<>>]

NoBalance == [confirmed |-> 0, unconfirmed |-> 0]

\* The task has entered the loop of start_listening and awaits the first
\* notification.
LoopEntered ==
    /\ pc = "recv"
    /\ notification = NoNotification
    /\ req_id = ""
    /\ request_type = ""
    /\ query = ""
    /\ addresses = <<>>
    /\ next_address = 0
    /\ total_confirmed = 0
    /\ total_unconfirmed = 0
    /\ all_txids = <<>>
    /\ balance = NoBalance
    /\ lookup_result = NoResult
    /\ response = NoResponse
    /\ returned = "pending"
    /\ log = "none"
    /\ calls = <<>>
    /\ sends = 0
    /\ delivered = [r \in ReqIds |-> 0]
    /\ lookups = [r \in ReqIds |-> 0]
    /\ responses = [r \in ReqIds |-> 0]
    /\ interrupted = FALSE
    /\ started = <<>>
    /\ submitted = <<>>
    /\ indexer_txs = NoAnswers
    /\ all_transactions = <<>>
    /\ relay_urls = <<"wss://relay.damus.io">>
    /\ next_relay = 2
    /\ added_count = 1
    /\ pool = {"wss://relay.damus.io"}
    /\ subscribed = TRUE
    /\ new_result = "Ok"
    /\ ns_pc = "running"

Init ==
    /\ LoopEntered
    /\ pairing = NoPairing

(***************************************************************************)
(* Pairing.  handle_pairing_event is a method of the handler that          *)
(* start_listening and handle_event never call; it is the one place of     *)
(* the handler that writes the pairing record.                             *)
(***************************************************************************)
\* PairingManager::store_pairing(pubkey, relays): the record it leaves.
store_pairing(pk, relays) == [android_pubkey |-> Some(pk), relays |-> relays]

\* handle_pairing_event(event), given what nip44_decrypt and get_relays
\* returned: the pairing record after it.
handle_pairing_event(stored, event, decrypted, got_relays) ==
    IF ~decrypted.ok THEN stored
    ELSE IF decrypted.value = "hello / paired"
         THEN store_pairing(event.pubkey,
                            IF got_relays.ok THEN got_relays.value
                                             ELSE <<"wss://relay.damus.io">>)
         ELSE stored

(***************************************************************************)
(* start_listening: one notification is received and, when it is an event  *)
(* of the request kind that is_balancebridge_request accepts, handed to    *)
(* handle_event; everything else ends the iteration.                       *)
(***************************************************************************)
\* Variant: the shutdown notice of the relay pool ends the loop (break).
Recv_until_shutdown(n) ==
    /\ pc = "recv"
    /\ (n.type = "Event" /\ is_balancebridge_request(n.event, ServerKey).some)
          => Total(delivered) < MaxDeliveries
    /\ notification' = n
    /\ delivered' = IF n.type = "Event" /\ IsWellFormedRequest(n.event)
                    THEN Bump(delivered, CorrelationId(n.event))
                    ELSE delivered
    /\ IF n.type = "RecvError" THEN pc' = "loop_end" /\ log' = "Error receiving notification"
       ELSE IF n.type = "Message" THEN pc' = "loop_end" /\ log' = "none"
       ELSE IF n.type = "Shutdown" THEN pc' = "exited" /\ log' = "Relay pool shutdown"
       ELSE IF n.event.kind = BALANCEBRIDGE_REQUEST_KIND
            THEN IF is_balancebridge_request(n.event, ServerKey).some
                 THEN pc' = "handle_event" /\ log' = "VALID BALANCEBRIDGE REQUEST"
                 ELSE pc' = "loop_end" /\ log' = "ignored kind=30078"
            ELSE pc' = "loop_end" /\ log' = "none"
    /\ UNCHANGED <<event_locals, lookup_locals, response, returned, calls, sends,
                   lookups, responses, started, submitted>>
    /\ UNCHANGED <<pairing, indexer_txs, startup_vars, electrs_locals, interrupted>>

\* Variant: the kind of the event is not looked at.
Recv_any_kind(n) ==
    /\ pc = "recv"
    /\ (n.type = "Event" /\ is_balancebridge_request(n.event, ServerKey).some)
          => Total(delivered) < MaxDeliveries
    /\ notification' = n
    /\ delivered' = IF n.type = "Event" /\ IsWellFormedRequest(n.event)
                    THEN Bump(delivered, CorrelationId(n.event))
                    ELSE delivered
    /\ IF n.type = "RecvError" THEN pc' = "loop_end" /\ log' = "Error receiving notification"
       ELSE IF n.type = "Message" THEN pc' = "loop_end" /\ log' = "none"
       ELSE IF n.type = "Shutdown" THEN pc' = "loop_end" /\ log' = "Relay pool shutdown"
       ELSE IF is_balancebridge_request(n.event, ServerKey).some
            THEN pc' = "handle_event" /\ log' = "VALID BALANCEBRIDGE REQUEST"
            ELSE pc' = "loop_end" /\ log' = "ignored kind=30078"
    /\ UNCHANGED <<event_locals, lookup_locals, response, returned, calls, sends,
                   lookups, responses, started, submitted>>
    /\ UNCHANGED <<pairing, indexer_txs, startup_vars, electrs_locals, interrupted>>

\* Variant: an event of the request kind that is not a request is taken for a
\* pairing event and handed to handle_pairing_event.
Recv_pairing(n) ==
    /\ pc = "recv"
    /\ (n.type = "Event" /\ is_balancebridge_request(n.event, ServerKey).some)
          => Total(delivered) < MaxDeliveries
    /\ notification' = n
    /\ delivered' = IF n.type = "Event" /\ IsWellFormedRequest(n.event)
                    THEN Bump(delivered, CorrelationId(n.event))
                    ELSE delivered
    /\ IF n.type = "RecvError" THEN pc' = "loop_end" /\ log' = "Error receiving notification"
       ELSE IF n.type = "Message" THEN pc' = "loop_end" /\ log' = "none"
       ELSE IF n.type = "Shutdown" THEN pc' = "loop_end" /\ log' = "Relay pool shutdown"
       ELSE IF n.event.kind = BALANCEBRIDGE_REQUEST_KIND
            THEN IF is_balancebridge_request(n.event, ServerKey).some
                 THEN pc' = "handle_event" /\ log' = "VALID BALANCEBRIDGE REQUEST"
                 ELSE pc' = "loop_end" /\ log' = "ignored kind=30078"
            ELSE pc' = "loop_end" /\ log' = "none"
    /\ IF n.type = "Event" /\ n.event.kind = BALANCEBRIDGE_REQUEST_KIND
            /\ ~is_balancebridge_request(n.event, ServerKey).some
       THEN \E decrypted \in {[ok |-> FALSE, value |-> "", error |-> "decrypt"],
                               Ok("hello / paired"), Ok("hello")} :
            \E got_relays \in {Err("no relays"), Ok(<<"wss://nos.lol">>)} :
                pairing' = handle_pairing_event(pairing, n.event, decrypted, got_relays)
       ELSE UNCHANGED pairing
    /\ UNCHANGED <<event_locals, lookup_locals, response, returned, calls, sends,
                   lookups, responses, started, submitted>>
    /\ UNCHANGED <<indexer_txs, startup_vars, electrs_locals, interrupted>>

\* Variant: only the events of the paired client are handed to handle_event.
Recv_from_paired_client(n) ==
    /\ pc = "recv"
    /\ (n.type = "Event" /\ is_balancebridge_request(n.event, ServerKey).some)
          => Total(delivered) < MaxDeliveries
    /\ notification' = n
    /\ delivered' = IF n.type = "Event" /\ IsWellFormedRequest(n.event)
                    THEN Bump(delivered, CorrelationId(n.event))
                    ELSE delivered
    /\ IF n.type = "RecvError" THEN pc' = "loop_end" /\ log' = "Error receiving notification"
       ELSE IF n.type = "Message" THEN pc' = "loop_end" /\ log' = "none"
       ELSE IF n.type = "Shutdown" THEN pc' = "loop_end" /\ log' = "Relay pool shutdown"
       ELSE IF n.event.kind = BALANCEBRIDGE_REQUEST_KIND
            THEN IF is_balancebridge_request(n.event, ServerKey).some
                    /\ pairing.android_pubkey.some
                    /\ pairing.android_pubkey.value = n.event.pubkey
                 THEN pc' = "handle_event" /\ log' = "VALID BALANCEBRIDGE REQUEST"
                 ELSE pc' = "loop_end" /\ log' = "ignored kind=30078"
            ELSE pc' = "loop_end" /\ log' = "none"
    /\ UNCHANGED <<event_locals, lookup_locals, response, returned, calls, sends,
                   lookups, responses, started, submitted>>
    /\ UNCHANGED <<pairing, indexer_txs, startup_vars, electrs_locals, interrupted>>

Recv(n) ==
    /\ pc = "recv"
    /\ (n.type = "Event" /\ is_balancebridge_request(n.event, ServerKey).some)
          => Total(delivered) < MaxDeliveries
    /\ notification' = n
    /\ delivered' = IF n.type = "Event" /\ IsWellFormedRequest(n.event)
                    THEN Bump(delivered, CorrelationId(n.event))
                    ELSE delivered
    /\ IF n.type = "RecvError" THEN pc' = "loop_end" /\ log' = "Error receiving notification"
       ELSE IF n.type = "Message" THEN pc' = "loop_end" /\ log' = "none"
       ELSE IF n.type = "Shutdown" THEN pc' = "loop_end" /\ log' = "Relay pool shutdown"
       ELSE IF n.event.kind = BALANCEBRIDGE_REQUEST_KIND
            THEN IF is_balancebridge_request(n.event, ServerKey).some
                 THEN pc' = "handle_event" /\ log' = "VALID BALANCEBRIDGE REQUEST"
                 ELSE pc' = "loop_end" /\ log' = "ignored kind=30078"
            ELSE pc' = "loop_end" /\ log' = "none"
    /\ UNCHANGED <<event_locals, lookup_locals, response, returned, calls, sends,
                   lookups, responses, started, submitted>>
    /\ UNCHANGED <<pairing, indexer_txs, startup_vars, electrs_locals, interrupted>>

(***************************************************************************)
(* handle_event up to the call of process_bitcoin_lookup: the "req" tag,   *)
(* the JSON body, the declared type and the query.                         *)
(***************************************************************************)
HandleEvent ==
    /\ pc = "handle_event"
    /\ LET event == notification.event
           found == extract_req_tag(event.tags, None)
           parsed == from_str(event.content)
       IN  IF ~found.some
           THEN /\ log' = "No req tag found"
                /\ returned' = "Ok"
                /\ pc' = "loop_end"
                /\ UNCHANGED <<event_locals, lookups, started>>
           ELSE IF parsed.t = "error"
           THEN /\ req_id' = found.value
                /\ log' = "JSON parse failed"
                /\ returned' = "Ok"
                /\ pc' = "loop_end"
                /\ UNCHANGED <<request_type, query, lookups, started>>
           ELSE /\ req_id' = found.value
                /\ request_type' = get_str_or(parsed, "type", "unknown")
                /\ query' = get_str_or(parsed, "query", "")
                /\ lookups' = Bump(lookups, found.value)
                /\ started' = Append(started, found.value)
                /\ log' = "LOOKUP START"
                /\ returned' = returned
                /\ pc' = "process_bitcoin_lookup"
    /\ UNCHANGED <<notification, lookup_locals, response, calls, sends,
                   delivered, responses, submitted>>
    /\ UNCHANGED <<pairing, indexer_txs, startup_vars, electrs_locals, interrupted>>

(***************************************************************************)
(* process_bitcoin_lookup: classification of the query.                    *)
(***************************************************************************)
\* Variant: whatever is not an extended public key is looked up as an address.
ProcessBitcoinLookup_address_by_default ==
    /\ pc = "process_bitcoin_lookup"
    /\ IF is_xpub(query)
       THEN pc' = "derive_addresses"
       ELSE pc' = "address_balance"
    /\ UNCHANGED <<notification, event_locals, lookup_locals,
                   response, returned, log, calls, sends, counters>>
    /\ UNCHANGED <<pairing, indexer_txs, startup_vars, electrs_locals, interrupted>>

ProcessBitcoinLookup ==
    /\ pc = "process_bitcoin_lookup"
    /\ IF is_xpub(query)
       THEN pc' = "derive_addresses" /\ UNCHANGED lookup_result
       ELSE IF is_bitcoin_address(query)
       THEN pc' = "address_balance" /\ UNCHANGED lookup_result
       ELSE /\ lookup_result' = Err("Invalid query: not an address or xpub")
            /\ pc' = "respond"
    /\ UNCHANGED <<notification, event_locals, addresses, next_address,
                   total_confirmed, total_unconfirmed, all_txids, balance,
                   response, returned, log, calls, sends, counters>>
    /\ UNCHANGED <<pairing, indexer_txs, startup_vars, electrs_locals, interrupted>>

\* Variant: a key that cannot be derived yields no addresses
\* (derive_addresses(query, gap_limit).unwrap_or_default()).
DeriveAddresses_or_default ==
    /\ pc = "derive_addresses"
    /\ LET derived == derive_addresses(query, GapLimit)
       IN  IF derived.ok
           THEN /\ addresses' = derived.value
                /\ next_address' = 1
                /\ pc' = IF Len(derived.value) = 0 THEN "xpub_finish" ELSE "xpub_balance"
           ELSE /\ addresses' = <<>>
                /\ next_address' = 1
                /\ pc' = "xpub_finish"
    /\ UNCHANGED <<notification, event_locals, total_confirmed, total_unconfirmed,
                   all_txids, balance, lookup_result, response, returned, log,
                   calls, sends, counters>>
    /\ UNCHANGED <<pairing, indexer_txs, startup_vars, electrs_locals, interrupted>>

\* derive_addresses(query, gap_limit)?
DeriveAddresses ==
    /\ pc = "derive_addresses"
    /\ LET derived == derive_addresses(query, GapLimit)
       IN  IF derived.ok
           THEN /\ addresses' = derived.value
                /\ next_address' = 1
                /\ pc' = IF Len(derived.value) = 0 THEN "xpub_finish" ELSE "xpub_balance"
                /\ UNCHANGED lookup_result
           ELSE /\ lookup_result' = Err(derived.error)
                /\ pc' = "respond"
                /\ UNCHANGED <<addresses, next_address>>
    /\ UNCHANGED <<notification, event_locals, total_confirmed, total_unconfirmed,
                   all_txids, balance, response, returned, log, calls, sends,
                   counters>>
    /\ UNCHANGED <<pairing, indexer_txs, startup_vars, electrs_locals, interrupted>>

\* Variant: after a failed balance query the loop goes on to the next address
\* (continue) without asking for the transactions of this one.
XpubBalance_skipping_on_failure(http) ==
    /\ pc = "xpub_balance"
    /\ LET address == addresses[next_address]
           result == get_address_balance(http)
       IN  IF result.error = "pending"
           THEN /\ pc' = "awaiting_indexer"
                /\ UNCHANGED <<calls, total_confirmed, total_unconfirmed, next_address>>
           ELSE /\ calls' = Append(calls, [op |-> "get_address_balance",
                                           address |-> address, result |-> result,
                                           timed_out |-> ~http.answered])
                /\ IF result.ok
                   THEN /\ total_confirmed' = total_confirmed + result.value.confirmed
                        /\ total_unconfirmed' = total_unconfirmed + result.value.unconfirmed
                        /\ pc' = "xpub_txs"
                        /\ UNCHANGED next_address
                   ELSE /\ UNCHANGED <<total_confirmed, total_unconfirmed>>
                        /\ IF next_address < Len(addresses)
                           THEN next_address' = next_address + 1 /\ pc' = "xpub_balance"
                           ELSE next_address' = next_address /\ pc' = "xpub_finish"
    /\ UNCHANGED <<notification, event_locals, addresses, all_txids,
                   balance, lookup_result, response, returned, log, sends, counters>>
    /\ UNCHANGED <<pairing, indexer_txs, startup_vars, electrs_locals, interrupted>>

\* The loop over the derived addresses: the balance of the next address.
XpubBalance(http) ==
    /\ pc = "xpub_balance"
    /\ LET address == addresses[next_address]
           result == get_address_balance(http)
       IN  IF result.error = "pending"
           THEN /\ pc' = "awaiting_indexer"
                /\ UNCHANGED <<calls, total_confirmed, total_unconfirmed>>
           ELSE /\ calls' = Append(calls, [op |-> "get_address_balance",
                                           address |-> address, result |-> result,
                                           timed_out |-> ~http.answered])
                /\ pc' = "xpub_txs"
                /\ IF result.ok
                   THEN /\ total_confirmed' = total_confirmed + result.value.confirmed
                        /\ total_unconfirmed' = total_unconfirmed + result.value.unconfirmed
                   ELSE UNCHANGED <<total_confirmed, total_unconfirmed>>
    /\ UNCHANGED <<notification, event_locals, addresses, next_address, all_txids,
                   balance, lookup_result, response, returned, log, sends, counters>>
    /\ UNCHANGED <<pairing, indexer_txs, startup_vars, electrs_locals, interrupted>>

\* Variant: a failed transaction query ends the lookup with its error
\* (get_address_txs(&address).await?).
XpubTxsPropagating(result) ==
    /\ pc = "xpub_txs"
    /\ calls' = Append(calls, [op |-> "get_address_txs",
                               address |-> addresses[next_address], result |-> result,
                               timed_out |-> FALSE])
    /\ all_txids' = IF result.ok THEN all_txids \o result.value ELSE all_txids
    /\ IF ~result.ok
       THEN next_address' = next_address /\ pc' = "respond"
            /\ lookup_result' = Err(result.error)
       ELSE IF next_address < Len(addresses)
       THEN next_address' = next_address + 1 /\ pc' = "xpub_balance"
            /\ UNCHANGED lookup_result
       ELSE next_address' = next_address /\ pc' = "xpub_finish"
            /\ UNCHANGED lookup_result
    /\ UNCHANGED <<notification, event_locals, addresses, total_confirmed,
                   total_unconfirmed, balance, response, returned,
                   log, sends, counters>>
    /\ UNCHANGED <<pairing, indexer_txs, startup_vars, electrs_locals, interrupted>>

\* Variant: the ids of each derived address are published as they come in.
XpubTxs_streaming(result) ==
    /\ pc = "xpub_txs"
    /\ calls' = Append(calls, [op |-> "get_address_txs",
                               address |-> addresses[next_address], result |-> result,
                               timed_out |-> FALSE])
    /\ all_txids' = IF result.ok THEN all_txids \o result.value ELSE all_txids
    /\ sends' = IF result.ok THEN sends + 1 ELSE sends
    /\ IF next_address < Len(addresses)
       THEN next_address' = next_address + 1 /\ pc' = "xpub_balance"
       ELSE next_address' = next_address /\ pc' = "xpub_finish"
    /\ UNCHANGED <<notification, event_locals, addresses, total_confirmed,
                   total_unconfirmed, balance, lookup_result, response, returned,
                   log, counters>>
    /\ UNCHANGED <<pairing, indexer_txs, startup_vars, electrs_locals, interrupted>>

\* The loop over the derived addresses: the transaction ids of the same address.
XpubTxs(result) ==
    /\ pc = "xpub_txs"
    /\ calls' = Append(calls, [op |-> "get_address_txs",
                               address |-> addresses[next_address], result |-> result,
                               timed_out |-> FALSE])
    /\ all_txids' = IF result.ok THEN all_txids \o result.value ELSE all_txids
    /\ IF next_address < Len(addresses)
       THEN next_address' = next_address + 1 /\ pc' = "xpub_balance"
       ELSE next_address' = next_address /\ pc' = "xpub_finish"
    /\ UNCHANGED <<notification, event_locals, addresses, total_confirmed,
                   total_unconfirmed, balance, lookup_result, response, returned,
                   log, sends, counters>>
    /\ UNCHANGED <<pairing, indexer_txs, startup_vars, electrs_locals, interrupted>>

\* After the loop: sort, dedup and the result of the lookup.
XpubFinish ==
    /\ pc = "xpub_finish"
    /\ all_txids' = dedup(sort(all_txids))
    /\ lookup_result' = Ok(BitcoinLookupResponse(query, total_confirmed,
                                                 total_unconfirmed, all_txids'))
    /\ pc' = "respond"
    /\ UNCHANGED <<notification, event_locals, addresses, next_address,
                   total_confirmed, total_unconfirmed, balance, response, returned,
                   log, calls, sends, counters>>
    /\ UNCHANGED <<pairing, indexer_txs, startup_vars, electrs_locals, interrupted>>

\* Variant: a failed balance query counts as a zero balance and the lookup
\* goes on, as in the loop over derived addresses.
AddressBalance_continuing(http) ==
    /\ pc = "address_balance"
    /\ LET result == get_address_balance(http)
       IN  IF result.error = "pending"
           THEN /\ pc' = "awaiting_indexer"
                /\ UNCHANGED <<calls, balance>>
           ELSE /\ calls' = Append(calls, [op |-> "get_address_balance",
                                           address |-> query, result |-> result,
                                           timed_out |-> ~http.answered])
                /\ balance' = IF result.ok THEN result.value ELSE NoBalance
                /\ pc' = "address_txs"
    /\ UNCHANGED <<notification, event_locals, addresses, next_address,
                   total_confirmed, total_unconfirmed, all_txids, lookup_result,
                   response, returned, log, sends, counters>>
    /\ UNCHANGED <<pairing, indexer_txs, startup_vars, electrs_locals, interrupted>>

\* A single address: get_address_balance(query).await?
AddressBalance(http) ==
    /\ pc = "address_balance"
    /\ LET result == get_address_balance(http)
       IN  IF result.error = "pending"
           THEN /\ pc' = "awaiting_indexer"
                /\ UNCHANGED <<calls, balance, lookup_result>>
           ELSE /\ calls' = Append(calls, [op |-> "get_address_balance",
                                           address |-> query, result |-> result,
                                           timed_out |-> ~http.answered])
                /\ IF result.ok
                   THEN balance' = result.value /\ pc' = "address_txs"
                        /\ UNCHANGED lookup_result
                   ELSE lookup_result' = Err(result.error) /\ pc' = "respond"
                        /\ UNCHANGED balance
    /\ UNCHANGED <<notification, event_locals, addresses, next_address,
                   total_confirmed, total_unconfirmed, all_txids, response,
                   returned, log, sends, counters>>
    /\ UNCHANGED <<pairing, indexer_txs, startup_vars, electrs_locals, interrupted>>

\* A single address: get_address_txs(query).await?
AddressTxs(result) ==
    /\ pc = "address_txs"
    /\ calls' = Append(calls, [op |-> "get_address_txs",
                               address |-> query, result |-> result,
                               timed_out |-> FALSE])
    /\ lookup_result' = IF result.ok
                        THEN Ok(BitcoinLookupResponse(query, balance.confirmed,
                                                      balance.unconfirmed, result.value))
                        ELSE Err(result.error)
    /\ pc' = "respond"
    /\ UNCHANGED <<notification, event_locals, addresses, next_address,
                   total_confirmed, total_unconfirmed, all_txids, balance,
                   response, returned, log, sends, counters>>
    /\ UNCHANGED <<pairing, indexer_txs, startup_vars, electrs_locals, interrupted>>

(***************************************************************************)
(* handle_event after the lookup: the payload, the tagged and signed       *)
(* event, and its publication.                                             *)
(***************************************************************************)
\* Variant: a failed lookup leaves handle_event with the error
\* (process_bitcoin_lookup(query).await?) and nothing is published.
RespondOnlyOnSuccess ==
    /\ pc = "respond"
    /\ IF lookup_result.ok
       THEN /\ response' = build_response_event(notification.event, req_id,
                                response_json(req_id, lookup_result), ServerKey)
            /\ pc' = "send_event"
            /\ UNCHANGED returned
       ELSE /\ returned' = "Err"
            /\ pc' = "loop_end"
            /\ UNCHANGED response
    /\ UNCHANGED <<notification, event_locals, lookup_locals, log, calls,
                   sends, counters>>
    /\ UNCHANGED <<pairing, indexer_txs, startup_vars, electrs_locals, interrupted>>

Respond ==
    /\ pc = "respond"
    /\ response' = build_response_event(notification.event, req_id,
                                        response_json(req_id, lookup_result), ServerKey)
    /\ pc' = "send_event"
    /\ UNCHANGED <<notification, event_locals, lookup_locals, returned, log, calls,
                   sends, counters>>
    /\ UNCHANGED <<pairing, indexer_txs, startup_vars, electrs_locals, interrupted>>

\* Variant: a response that could not be published is sent again.
SendEvent_retrying(published) ==
    /\ pc = "send_event"
    /\ sends' = sends + 1
    /\ responses' = Bump(responses, response.tags[2][2])
    /\ submitted' = Append(submitted, response.tags[2][2])
    /\ log' = IF published THEN "RESPONSE SENT" ELSE "RESPONSE SEND ERROR"
    /\ IF published
       THEN returned' = "Ok" /\ pc' = "loop_end"
       ELSE UNCHANGED <<returned, pc>>
    /\ UNCHANGED <<notification, event_locals, lookup_locals, response, calls,
                   delivered, lookups, started>>
    /\ UNCHANGED <<pairing, indexer_txs, startup_vars, electrs_locals, interrupted>>

\* Variant: the newest response goes to the head of the queue of responses
\* to publish.
SendEvent_newest_first(published) ==
    /\ pc = "send_event"
    /\ sends' = sends + 1
    /\ responses' = Bump(responses, response.tags[2][2])
    /\ submitted' = <<response.tags[2][2]>> \o submitted
    /\ log' = IF published THEN "RESPONSE SENT" ELSE "RESPONSE SEND ERROR"
    /\ returned' = "Ok"
    /\ pc' = "loop_end"
    /\ UNCHANGED <<notification, event_locals, lookup_locals, response, calls,
                   delivered, lookups, started>>
    /\ UNCHANGED <<pairing, indexer_txs, startup_vars, electrs_locals, interrupted>>

\* client.send_event(&response_event).await: published or not, the handler
\* returns Ok(()).
SendEvent(published) ==
    /\ pc = "send_event"
    /\ sends' = sends + 1
    /\ responses' = Bump(responses, response.tags[2][2])
    /\ submitted' = Append(submitted, response.tags[2][2])
    /\ log' = IF published THEN "RESPONSE SENT" ELSE "RESPONSE SEND ERROR"
    /\ returned' = "Ok"
    /\ pc' = "loop_end"
    /\ UNCHANGED <<notification, event_locals, lookup_locals, response, calls,
                   delivered, lookups, started>>
    /\ UNCHANGED <<pairing, indexer_txs, startup_vars, electrs_locals, interrupted>>

\* The end of the iteration: its locals go out of scope and the task awaits
\* the next notification.
LoopEnd ==
    /\ pc = "loop_end"
    /\ pc' = "recv"
    /\ notification' = NoNotification
    /\ req_id' = ""
    /\ request_type' = ""
    /\ query' = ""
    /\ addresses' = <<>>
    /\ next_address' = 0
    /\ total_confirmed' = 0
    /\ total_unconfirmed' = 0
    /\ all_txids' = <<>>
    /\ balance' = NoBalance
    /\ lookup_result' = NoResult
    /\ response' = NoResponse
    /\ returned' = "pending"
    /\ log' = "none"
    /\ calls' = <<>>
    /\ sends' = 0
    /\ UNCHANGED counters
    /\ interrupted' = (interrupted \/ notification.type \in {"Shutdown", "RecvError"})
    /\ UNCHANGED <<pairing, indexer_txs, startup_vars, electrs_locals>>

Next ==
    \/ pc = "recv" /\ \E n \in Notifications : Recv(n)
    \/ HandleEvent
    \/ ProcessBitcoinLookup
    \/ DeriveAddresses
    \/ \E http \in BalanceReplies : XpubBalance(http)
    \/ \E result \in TxsReplies : XpubTxs(result)
    \/ XpubFinish
    \/ \E http \in BalanceReplies : AddressBalance(http)
    \/ \E result \in TxsReplies : AddressTxs(result)
    \/ Respond
    \/ \E published \in BOOLEAN : SendEvent(published)
    \/ LoopEnd

Spec == Init /\ [][Next]_vars

\* The steps of one iteration after the notification was received: the task
\* is polled whenever the await it stands at has completed.
Handling ==
    \/ HandleEvent
    \/ ProcessBitcoinLookup
    \/ DeriveAddresses
    \/ \E http \in BalanceReplies : XpubBalance(http)
    \/ \E result \in TxsReplies : XpubTxs(result)
    \/ XpubFinish
    \/ \E http \in BalanceReplies : AddressBalance(http)
    \/ \E result \in TxsReplies : AddressTxs(result)
    \/ Respond
    \/ \E published \in BOOLEAN : SendEvent(published)
    \/ LoopEnd

\* The notifications of one client that writes well-formed tags and one
\* correlation id, with every body, and the notices of the relay pool.
NotificationsOfOneClient ==
    {[type |-> "Event",
      event |-> [kind |-> BALANCEBRIDGE_REQUEST_KIND, pubkey |-> "key:alice",
                 tags |-> << <<"p", to_hex(ServerKey)>>, <<"req", "r1">> >>,
                 content |-> b]] : b \in Bodies}
        \cup {[type |-> t, event |-> NoEvent] : t \in {"Message", "Shutdown", "RecvError"}}

FairNext ==
    \/ pc = "recv" /\ \E n \in NotificationsOfOneClient : Recv(n)
    \/ Handling

\* The loop, serving one client, under a scheduler that runs the task: an
\* iteration that can take a step takes one.  When the next notification
\* arrives is left open.
FairSpec == Init /\ [][FairNext]_vars /\ WF_vars(Handling)

(***************************************************************************)
(* The loop given events of one client with up to MaxScanTags tags, among  *)
(* them events with several "req" tags and a "p" tag.  The bodies are one  *)
(* that is not JSON and one whose query is answered without the indexer.   *)
(***************************************************************************)
ManyTagLists == UNION {[1..n -> TagPool] : n \in 0..MaxScanTags}

NotificationsWithManyTags ==
    {[type |-> "Event",
      event |-> [kind |-> BALANCEBRIDGE_REQUEST_KIND, pubkey |-> "key:alice",
                 tags |-> t, content |-> b]] :
        t \in ManyTagLists, b \in {BodyGarbageQuery, BodyNotJson}}

CorrelationNext ==
    \/ pc = "recv" /\ \E n \in NotificationsWithManyTags : Recv(n)
    \/ HandleEvent
    \/ ProcessBitcoinLookup
    \/ Respond
    \/ \E published \in BOOLEAN : SendEvent(published)
    \/ LoopEnd

CorrelationSpec == Init /\ [][CorrelationNext]_vars

(***************************************************************************)
(* The loop entered with or without a paired client, given the same        *)
(* events from either of two clients: requests for a single address and    *)
(* for a query that is neither, addressed to this server or to another.    *)
(***************************************************************************)
\* What get_android_pubkey may find at start_listening: nothing, or the
\* record of a paired client.
PairingRecords == {NoPairing, store_pairing("key:alice", <<"wss://relay.damus.io">>)}

PairedInit ==
    /\ LoopEntered
    /\ pairing \in PairingRecords

NotificationsOfTwoClients ==
    {[type |-> "Event",
      event |-> [kind |-> k, pubkey |-> c, tags |-> t, content |-> b]] :
        k \in Kinds, c \in ClientKeys,
        t \in {<< <<"p", to_hex(ServerKey)>>, <<"req", "r1">> >>,
               << <<"p", to_hex(OtherServerKey)>>, <<"req", "r1">> >>,
               << <<"p", to_hex(ServerKey)>> >>},
        b \in {BodyAddress, BodyGarbageQuery}}

PairedNext ==
    \/ pc = "recv" /\ \E n \in NotificationsOfTwoClients : Recv(n)
    \/ HandleEvent
    \/ ProcessBitcoinLookup
    \/ \E http \in BalanceReplies : AddressBalance(http)
    \/ \E result \in TxsReplies : AddressTxs(result)
    \/ Respond
    \/ \E published \in BOOLEAN : SendEvent(published)
    \/ LoopEnd

PairedSpec == PairedInit /\ [][PairedNext]_vars

(***************************************************************************)
(* ElectrsClient::get_address_transactions and                             *)
(* ElectrsClient::get_addresses_balance_and_txs (electrs.rs).              *)
(***************************************************************************)
\* What the indexer answers to the request for one transaction
\* (GET /tx/{txid}): no connection, a status, and with a success status a
\* body that is JSON or not and the sum of the outputs to the address.
TxDetail(connected, status, parses, amount) ==
    [connected |-> connected, status |-> status, parses |-> parses, amount |-> amount]

\* An entry of the indexer's history of an address (ElectrsTx), with the
\* answer to the request for its transaction: block_time 0 stands for None.
ElectrsTx(txid, confirmed, block_time, detail) ==
    [txid |-> txid, confirmed |-> confirmed, block_time |-> block_time, detail |-> detail]

TxA == ElectrsTx("aa11", TRUE, 100, TxDetail(TRUE, 200, TRUE, 700))
TxB == ElectrsTx("bb22", TRUE, 100, TxDetail(TRUE, 200, FALSE, 0))
TxC == ElectrsTx("cc33", TRUE, 200, TxDetail(TRUE, 200, TRUE, 5))
TxU == ElectrsTx("dd44", FALSE, 0, TxDetail(TRUE, 200, TRUE, 30))
TxN == ElectrsTx("ee55", TRUE, 300, TxDetail(TRUE, 404, FALSE, 0))
TxF == ElectrsTx("ff66", TRUE, 50, TxDetail(FALSE, 0, FALSE, 0))

\* What the indexer may answer to a history request: no connection, an error
\* status, a body that is not a list of entries, or a list of entries in its
\* order.
HistoryReplies ==
    {[connected |-> FALSE, status |-> 0, parses |-> FALSE, txs |-> <<>>],
     [connected |-> TRUE, status |-> 500, parses |-> FALSE, txs |-> <<>>],
     [connected |-> TRUE, status |-> 200, parses |-> FALSE, txs |-> <<>>],
     [connected |-> TRUE, status |-> 200, parses |-> TRUE, txs |-> <<>>],
     [connected |-> TRUE, status |-> 200, parses |-> TRUE, txs |-> <<TxA>>],
     [connected |-> TRUE, status |-> 200, parses |-> TRUE, txs |-> <<TxA, TxB>>],
     [connected |-> TRUE, status |-> 200, parses |-> TRUE, txs |-> <<TxU, TxC, TxA>>],
     [connected |-> TRUE, status |-> 200, parses |-> TRUE, txs |-> <<TxN, TxF, TxA>>]}

\* get_transaction_amount(txid, address): the sum of the outputs to the
\* address; 0 when the indexer does not have the transaction.
get_transaction_amount(detail) ==
    IF ~detail.connected THEN Err("Failed to connect to Electrs")
    ELSE IF ~is_success(detail.status) THEN Ok(0)
    ELSE IF ~detail.parses THEN Err("Failed to parse transaction")
    ELSE Ok(detail.amount)

AddressTransaction(tx) ==
    [txid |-> tx.txid,
     timestamp |-> tx.block_time,
     amount |-> LET amt == get_transaction_amount(tx.detail)
                IN  IF amt.ok THEN amt.value ELSE 0,
     confirmations |-> IF tx.confirmed THEN 1 ELSE 0]

\* Variant: the error of get_transaction_amount leaves the function
\* (get_transaction_amount(&tx.txid, address).await?).
get_address_transactions_propagating(reply) ==
    IF ~reply.connected THEN Err("Failed to connect to Electrs")
    ELSE IF ~is_success(reply.status) THEN Err("Electrs returned error")
    ELSE IF ~reply.parses THEN Err("Failed to parse Electrs transactions response")
    ELSE IF \E i \in DOMAIN reply.txs : ~get_transaction_amount(reply.txs[i].detail).ok
         THEN Err("Failed to get amount")
         ELSE Ok([i \in 1..Len(reply.txs) |-> AddressTransaction(reply.txs[i])])

get_address_transactions(reply) ==
    IF ~reply.connected THEN Err("Failed to connect to Electrs")
    ELSE IF ~is_success(reply.status) THEN Err("Electrs returned error")
    ELSE IF ~reply.parses THEN Err("Failed to parse Electrs transactions response")
    ELSE Ok([i \in 1..Len(reply.txs) |-> AddressTransaction(reply.txs[i])])

\* sort_by(|a, b| b.timestamp.cmp(&a.timestamp)): a stable sort, latest first.
RECURSIVE insert_by_timestamp(_, _)
insert_by_timestamp(sorted, t) ==
    IF sorted = <<>> THEN <<t>>
    ELSE IF Head(sorted).timestamp >= t.timestamp
         THEN <<Head(sorted)>> \o insert_by_timestamp(Tail(sorted), t)
         ELSE <<t>> \o sorted

RECURSIVE sort_by_timestamp(_)
sort_by_timestamp(v) ==
    IF v = <<>> THEN <<>>
    ELSE insert_by_timestamp(sort_by_timestamp(SubSeq(v, 1, Len(v) - 1)), v[Len(v)])

\* dedup_by(|a, b| a.txid == b.txid): an element is removed when it has the
\* txid of the element kept before it.
RECURSIVE dedup_by_txid(_)
dedup_by_txid(v) ==
    IF Len(v) < 2 THEN v
    ELSE LET kept == dedup_by_txid(SubSeq(v, 1, Len(v) - 1))
             last == v[Len(v)]
         IN  IF kept[Len(kept)].txid = last.txid THEN kept ELSE Append(kept, last)

AddressLists == UNION {[1..n -> {GoodAddress, OtherAddress}] : n \in 0..MaxAddresses}

not_electrs == <<notification, event_locals, all_txids, balance, lookup_result,
                 response, returned, log, sends, counters, interrupted,
                 pairing, indexer_txs, startup_vars>>

\* A call of get_addresses_balance_and_txs(addresses).
ElectrsInit ==
    /\ addresses \in AddressLists
    /\ pc = IF addresses = <<>> THEN "aggregate_finish" ELSE "aggregate_balance"
    /\ next_address = 1
    /\ total_confirmed = 0
    /\ total_unconfirmed = 0
    /\ all_transactions = <<>>
    /\ notification = NoNotification
    /\ req_id = ""
    /\ request_type = ""
    /\ query = ""
    /\ all_txids = <<>>
    /\ balance = NoBalance
    /\ lookup_result = NoResult
    /\ response = NoResponse
    /\ returned = "pending"
    /\ log = "none"
    /\ calls = <<>>
    /\ sends = 0
    /\ delivered = [r \in ReqIds |-> 0]
    /\ lookups = [r \in ReqIds |-> 0]
    /\ responses = [r \in ReqIds |-> 0]
    /\ interrupted = FALSE
    /\ started = <<>>
    /\ submitted = <<>>
    /\ pairing = NoPairing
    /\ indexer_txs = NoAnswers
    /\ relay_urls = <<"wss://relay.damus.io">>
    /\ next_relay = 2
    /\ added_count = 1
    /\ pool = {"wss://relay.damus.io"}
    /\ subscribed = TRUE
    /\ new_result = "Ok"
    /\ ns_pc = "running"

\* The loop over the addresses: the balance of the next address.
AggregateBalance(http) ==
    /\ pc = "aggregate_balance"
    /\ LET result == get_address_balance(http)
       IN  IF result.error = "pending"
           THEN /\ pc' = "awaiting_indexer"
                /\ UNCHANGED <<total_confirmed, total_unconfirmed>>
           ELSE /\ pc' = "aggregate_transactions"
                /\ IF result.ok
                   THEN /\ total_confirmed' = total_confirmed + result.value.confirmed
                        /\ total_unconfirmed' = total_unconfirmed + result.value.unconfirmed
                   ELSE UNCHANGED <<total_confirmed, total_unconfirmed>>
    /\ UNCHANGED <<addresses, next_address, all_transactions, calls, not_electrs>>

\* The loop over the addresses: the history of the same address.
AggregateTransactions(reply) ==
    /\ pc = "aggregate_transactions"
    /\ LET result == get_address_transactions(reply)
       IN  /\ all_transactions' = IF result.ok
                                  THEN all_transactions \o result.value
                                  ELSE all_transactions
           /\ calls' = Append(calls, [op |-> "get_address_transactions",
                                      address |-> addresses[next_address],
                                      reply |-> reply, result |-> result])
    /\ IF next_address < Len(addresses)
       THEN next_address' = next_address + 1 /\ pc' = "aggregate_balance"
       ELSE next_address' = next_address /\ pc' = "aggregate_finish"
    /\ UNCHANGED <<addresses, total_confirmed, total_unconfirmed, not_electrs>>

\* After the loop: sort_by, dedup_by and the returned triple.
AggregateFinish ==
    /\ pc = "aggregate_finish"
    /\ all_transactions' = dedup_by_txid(sort_by_timestamp(all_transactions))
    /\ pc' = "aggregate_done"
    /\ UNCHANGED <<addresses, next_address, total_confirmed, total_unconfirmed,
                   calls, not_electrs>>

ElectrsNext ==
    \/ \E http \in BalanceReplies : AggregateBalance(http)
    \/ \E reply \in HistoryReplies : AggregateTransactions(reply)
    \/ AggregateFinish

ElectrsSpec == ElectrsInit /\ [][ElectrsNext]_vars

(***************************************************************************)
(* Startup (main.rs and NostrHandler::new): the supervised request/response*)
(* loop, and the task that builds the handler and runs start_listening.    *)
(***************************************************************************)
RelayUrlPool == {"wss://relay.damus.io", "wss://nos.lol", "not a url"}
RelayLists == UNION {[1..n -> RelayUrlPool] : n \in 0..MaxRelays}

\* Url::parse(relay_url): an absolute URL parses, a string without a scheme
\* does not.
Url_parse(relay_url) ==
    IF relay_url \in {"wss://relay.damus.io", "wss://nos.lol"}
    THEN Ok(relay_url)
    ELSE Err("relative URL without a base")

not_startup == <<notification, event_locals, lookup_locals, response, returned,
                 calls, sends, counters, interrupted, pairing, indexer_txs,
                 electrs_locals>>

StartupInit ==
    /\ pc = "new_relays"
    /\ relay_urls \in RelayLists
    /\ next_relay = 1
    /\ added_count = 0
    /\ pool = {}
    /\ subscribed = FALSE
    /\ new_result = "pending"
    /\ ns_pc = "running"
    /\ notification = NoNotification
    /\ req_id = ""
    /\ request_type = ""
    /\ query = ""
    /\ addresses = <<>>
    /\ next_address = 0
    /\ total_confirmed = 0
    /\ total_unconfirmed = 0
    /\ all_txids = <<>>
    /\ balance = NoBalance
    /\ lookup_result = NoResult
    /\ response = NoResponse
    /\ returned = "pending"
    /\ log = "none"
    /\ calls = <<>>
    /\ sends = 0
    /\ delivered = [r \in ReqIds |-> 0]
    /\ lookups = [r \in ReqIds |-> 0]
    /\ responses = [r \in ReqIds |-> 0]
    /\ interrupted = FALSE
    /\ started = <<>>
    /\ submitted = <<>>
    /\ pairing = NoPairing
    /\ indexer_txs = NoAnswers
    /\ all_transactions = <<>>

\* Variant: a relay that could not be added is counted too.
NewAddRelay_counting_failures(added) ==
    /\ pc = "new_relays"
    /\ next_relay <= Len(relay_urls)
    /\ LET url == Url_parse(relay_urls[next_relay])
       IN  IF url.ok
           THEN /\ added_count' = added_count + 1
                /\ pool' = IF added THEN pool \cup {url.value} ELSE pool
                /\ log' = IF added THEN "Relay connected" ELSE "Relay failed"
           ELSE /\ log' = "Invalid relay URL"
                /\ UNCHANGED <<added_count, pool>>
    /\ next_relay' = next_relay + 1
    /\ UNCHANGED <<pc, relay_urls, subscribed, new_result, ns_pc, not_startup>>

\* NostrHandler::new, the loop over relay_urls: the next URL is parsed and,
\* when it parses, added to the client; a failure of either is logged.
NewAddRelay(added) ==
    /\ pc = "new_relays"
    /\ next_relay <= Len(relay_urls)
    /\ LET url == Url_parse(relay_urls[next_relay])
       IN  IF url.ok
           THEN IF added
                THEN /\ added_count' = added_count + 1
                     /\ pool' = pool \cup {url.value}
                     /\ log' = "Relay connected"
                ELSE /\ log' = "Relay failed"
                     /\ UNCHANGED <<added_count, pool>>
           ELSE /\ log' = "Invalid relay URL"
                /\ UNCHANGED <<added_count, pool>>
    /\ next_relay' = next_relay + 1
    /\ UNCHANGED <<pc, relay_urls, subscribed, new_result, ns_pc, not_startup>>

\* After the loop: new fails when nothing was added, else connects.  The
\* spawned task logs a failure of new and ends.
NewCheckRelays ==
    /\ pc = "new_relays"
    /\ next_relay > Len(relay_urls)
    /\ IF added_count = 0
       THEN /\ new_result' = "Failed to add any relays"
            /\ log' = "Failed to start Nostr handler"
            /\ pc' = "task_ended"
       ELSE /\ pc' = "new_electrs"
            /\ UNCHANGED <<new_result, log>>
    /\ UNCHANGED <<relay_urls, next_relay, added_count, pool, subscribed, ns_pc,
                   not_startup>>

\* ElectrsClient::new(): the HTTP client is built or not.
NewElectrsClient(built) ==
    /\ pc = "new_electrs"
    /\ IF built
       THEN /\ pc' = "new_subscribe"
            /\ UNCHANGED <<new_result, log>>
       ELSE /\ new_result' = "Failed to create HTTP client"
            /\ log' = "Failed to start Nostr handler"
            /\ pc' = "task_ended"
    /\ UNCHANGED <<relay_urls, next_relay, added_count, pool, subscribed, ns_pc,
                   not_startup>>

\* handler.subscribe_requests().await? and Ok(handler).
NewSubscribe(accepted) ==
    /\ pc = "new_subscribe"
    /\ subscribed' = accepted
    /\ IF accepted
       THEN /\ new_result' = "Ok"
            /\ pc' = "start_listening"
            /\ UNCHANGED log
       ELSE /\ new_result' = "subscribe failed"
            /\ log' = "Failed to start Nostr handler"
            /\ pc' = "task_ended"
    /\ UNCHANGED <<relay_urls, next_relay, added_count, pool, ns_pc, not_startup>>

\* start_listening up to its loop: get_android_pubkey()? ends it with an
\* error, which the task logs before it ends.
StartListening(pairing_read) ==
    /\ pc = "start_listening"
    /\ IF pairing_read
       THEN pc' = "recv" /\ UNCHANGED log
       ELSE pc' = "task_ended" /\ log' = "Nostr handler exited with error"
    /\ UNCHANGED <<startup_vars, not_startup>>

\* main, the supervised loop: run_nomadserver_nostr_loop returns; after an
\* Err the supervisor sleeps, after an Ok it calls it again at once.
NsLoopExits(result) ==
    /\ ns_pc = "running"
    /\ ns_pc' = IF result = "Err" THEN "sleeping" ELSE "running"
    /\ UNCHANGED <<pc, log, relay_urls, next_relay, added_count, pool, subscribed,
                   new_result, not_startup>>

\* tokio::time::sleep(Duration::from_secs(2)) is over and the loop calls
\* run_nomadserver_nostr_loop again.
NsBackoffElapsed ==
    /\ ns_pc = "sleeping"
    /\ ns_pc' = "running"
    /\ UNCHANGED <<pc, log, relay_urls, next_relay, added_count, pool, subscribed,
                   new_result, not_startup>>

HandlerTask ==
    \/ \E added \in BOOLEAN : NewAddRelay(added)
    \/ NewCheckRelays
    \/ \E built \in BOOLEAN : NewElectrsClient(built)
    \/ \E accepted \in BOOLEAN : NewSubscribe(accepted)
    \/ \E pairing_read \in BOOLEAN : StartListening(pairing_read)

StartupNext ==
    \/ HandlerTask
    \/ \E result \in {"Ok", "Err"} : NsLoopExits(result)
    \/ NsBackoffElapsed

StartupSpec == StartupInit /\ [][StartupNext]_vars

\* Startup under a scheduler that runs both tasks and a timer that fires.
FairStartupSpec ==
    StartupSpec /\ WF_vars(HandlerTask) /\ WF_vars(NsBackoffElapsed)

(***************************************************************************)
(* The aggregation of transaction ids in process_bitcoin_lookup (the loop  *)
(* over the addresses, then sort and dedup), run over a list of addresses  *)
(* and then over the same list twice, against an indexer that answers the  *)
(* same for the same address.                                              *)
(***************************************************************************)
\* Ok(txids) => all_txids.extend(txids); Err(e) => warn!(...)
extend(txids, result) == IF result.ok THEN txids \o result.value ELSE txids

not_aggregation == <<notification, event_locals, total_confirmed, total_unconfirmed,
                     balance, response, returned, log, calls, sends, counters,
                     interrupted, pairing, startup_vars, electrs_locals>>

AggregationInit ==
    /\ addresses \in AddressLists
    /\ indexer_txs \in [{GoodAddress, OtherAddress} -> TxsReplies]
    /\ pc = "collect_once"
    /\ next_address = 1
    /\ total_confirmed = 0
    /\ total_unconfirmed = 0
    /\ all_transactions = <<>>
    /\ notification = NoNotification
    /\ req_id = ""
    /\ request_type = ""
    /\ query = ""
    /\ all_txids = <<>>
    /\ balance = NoBalance
    /\ lookup_result = NoResult
    /\ response = NoResponse
    /\ returned = "pending"
    /\ log = "none"
    /\ calls = <<>>
    /\ sends = 0
    /\ delivered = [r \in ReqIds |-> 0]
    /\ lookups = [r \in ReqIds |-> 0]
    /\ responses = [r \in ReqIds |-> 0]
    /\ interrupted = FALSE
    /\ started = <<>>
    /\ submitted = <<>>
    /\ pairing = NoPairing
    /\ relay_urls = <<"wss://relay.damus.io">>
    /\ next_relay = 2
    /\ added_count = 1
    /\ pool = {"wss://relay.damus.io"}
    /\ subscribed = TRUE
    /\ new_result = "Ok"
    /\ ns_pc = "running"

\* The body of the loop for the next address: the transaction ids the
\* indexer has for it are appended.
CollectTxids ==
    /\ pc \in {"collect_once", "collect_twice"}
    /\ next_address <= Len(addresses)
    /\ all_txids' = extend(all_txids, indexer_txs[addresses[next_address]])
    /\ next_address' = next_address + 1
    /\ UNCHANGED <<pc, addresses, lookup_result, indexer_txs, not_aggregation>>

\* The end of the run over the list: sort, dedup and the result; the second
\* run, over the list followed by itself, begins.
CollectOnceFinish ==
    /\ pc = "collect_once"
    /\ next_address > Len(addresses)
    /\ lookup_result' = Ok(BitcoinLookupResponse(query, total_confirmed,
                                                 total_unconfirmed,
                                                 dedup(sort(all_txids))))
    /\ addresses' = addresses \o addresses
    /\ next_address' = 1
    /\ all_txids' = <<>>
    /\ pc' = "collect_twice"
    /\ UNCHANGED <<indexer_txs, not_aggregation>>

\* The end of the run over the doubled list: sort and dedup.
CollectTwiceFinish ==
    /\ pc = "collect_twice"
    /\ next_address > Len(addresses)
    /\ all_txids' = dedup(sort(all_txids))
    /\ pc' = "collect_done"
    /\ UNCHANGED <<addresses, next_address, lookup_result, indexer_txs,
                   not_aggregation>>

AggregationNext ==
    \/ CollectTxids
    \/ CollectOnceFinish
    \/ CollectTwiceFinish

AggregationSpec == AggregationInit /\ [][AggregationNext]_vars

(***************************************************************************)
(* Properties.                                                             *)
(***************************************************************************)
CurrentEvent == notification.event
InIteration == notification.type = "Event"

\* handle_event was not called in this iteration.
NotHandled == pc = "loop_end" /\ returned = "pending"

\* No indexer call was made and nothing was built or handed to send_event.
NothingDone == calls = <<>> /\ sends = 0 /\ response.kind = 0

LookupPcs ==
    {"process_bitcoin_lookup", "derive_addresses", "xpub_balance", "xpub_txs",
     "xpub_finish", "address_balance", "address_txs"}

RequestTypes == {"bitcoin_lookup", "broadcast_tx", "get_fees", "get_utxos"}

\* The "type" member of the body, when the body is an object that has a string
\* one; "" otherwise.
DeclaredType(e) ==
    LET v == json_value_of(e.content)
    IN  IF v.t = "object" /\ "type" \in DOMAIN v.fields /\ v.fields["type"].t = "string"
        THEN v.fields["type"].v
        ELSE ""

ResponseBody == response.content.json_text_of

ToSet(seq) == {seq[i] : i \in DOMAIN seq}

IsBalanceCall(c) == c.op = "get_address_balance"
IsTxsCall(c) == c.op = "get_address_txs"

\* The sum of one field of the balances the indexer returned in this iteration.
RECURSIVE SumReturned(_, _)
SumReturned(cs, field) ==
    IF cs = <<>> THEN 0
    ELSE (IF IsBalanceCall(Head(cs)) /\ Head(cs).result.ok
          THEN Head(cs).result.value[field]
          ELSE 0) + SumReturned(Tail(cs), field)

\* The lookup of an extended public key has left its loop over the addresses.
XpubLookupDone ==
    /\ is_xpub(query)
    /\ addresses # <<>>
    /\ pc \in {"respond", "send_event", "loop_end"}

\* C1: an event without a correlation tag (no "req" tag of two or more
\* elements) is not handed to handle_event, and no indexer call, no response
\* event and no send_event call comes of it.
C1_NoCorrelationTagNoResponse ==
    (InIteration /\ ~HasCorrelationTag(CurrentEvent)) => (NotHandled /\ NothingDone)

\* A request to this server with a well-formed body whose only "req" tag has
\* one element has been received and the iteration is over.
C1_Witness ==
    /\ pc = "loop_end"
    /\ InIteration
    /\ CurrentEvent.kind = BALANCEBRIDGE_REQUEST_KIND
    /\ AddressedTo(CurrentEvent, ServerKey)
    /\ \E i \in DOMAIN CurrentEvent.tags : CurrentEvent.tags[i] = <<"req">>
    /\ ~HasCorrelationTag(CurrentEvent)
    /\ CurrentEvent.content = BodyAddress

\* C2: an event of the request kind whose "p" tags do not name this server is
\* not handed to handle_event, triggers no indexer call and no response.
C2_OtherRecipientIgnored ==
    (InIteration /\ CurrentEvent.kind = BALANCEBRIDGE_REQUEST_KIND
        /\ ~AddressedTo(CurrentEvent, ServerKey))
    => (NotHandled /\ NothingDone)

\* A request with a correlation tag and a well-formed body, addressed to another
\* server, was received and ignored.
C2_Witness ==
    /\ pc = "loop_end"
    /\ InIteration
    /\ CurrentEvent.kind = BALANCEBRIDGE_REQUEST_KIND
    /\ AddressedTo(CurrentEvent, OtherServerKey)
    /\ ~AddressedTo(CurrentEvent, ServerKey)
    /\ HasCorrelationTag(CurrentEvent)
    /\ CurrentEvent.content = BodyAddress
    /\ log = "ignored kind=30078"

\* C3: a response event, once built, carries the correlation id of the request
\* event being handled in the "req" member of its body and in its one "req"
\* tag, with status ok and with status error alike.
C3_ResponseEchoesCorrelationId ==
    response.kind # 0 =>
        /\ InIteration
        /\ HasCorrelationTag(CurrentEvent)
        /\ ResponseBody.req = CorrelationId(CurrentEvent)
        /\ ResponseBody.status \in {"ok", "error"}
        /\ \E i \in DOMAIN response.tags :
              response.tags[i] = <<"req", CorrelationId(CurrentEvent)>>
        /\ \A i \in DOMAIN response.tags :
              response.tags[i][1] = "req" => response.tags[i][2] = CorrelationId(CurrentEvent)

\* The response to a request with correlation id "r2" was published with status
\* ok.
C3_Witness ==
    /\ pc = "loop_end"
    /\ log = "RESPONSE SENT"
    /\ CorrelationId(CurrentEvent) = "r2"
    /\ ResponseBody.status = "ok"
    /\ ResponseBody.req = "r2"

\* C4: when the iteration of a request that is addressed to this server, has a
\* correlation tag and a JSON body is over, send_event was called exactly
\* once, with status ok when the lookup succeeded and with status error and
\* the error message when it failed; no iteration calls send_event twice.
C4_ExactlyOnePublishAttempt ==
    /\ sends <= 1
    /\ (pc = "loop_end" /\ InIteration /\ IsWellFormedRequest(CurrentEvent)) =>
          /\ sends = 1
          /\ response.kind = BALANCEBRIDGE_RESPONSE_KIND
          /\ lookup_result.error # "none"
          /\ lookup_result.ok => ResponseBody.status = "ok"
          /\ ~lookup_result.ok =>
                /\ ResponseBody.status = "error"
                /\ ResponseBody.error = lookup_result.error
                /\ ResponseBody.error # ""

\* The balance query of a single-address request failed and the error response
\* was handed to send_event.
C4_Witness ==
    /\ pc = "loop_end"
    /\ IsWellFormedRequest(CurrentEvent)
    /\ query = GoodAddress
    /\ ~lookup_result.ok
    /\ lookup_result.error = "Failed to connect to Electrs"
    /\ sends = 1
    /\ ResponseBody.status = "error"

\* C5 (as claimed): a request to this server with a correlation tag and a JSON
\* body whose "type" is missing or not one of the four request types is
\* discarded: no lookup, no indexer call, no response.
C5_UnknownTypeDiscarded ==
    (InIteration /\ IsWellFormedRequest(CurrentEvent)
        /\ DeclaredType(CurrentEvent) \notin RequestTypes)
    => (pc \in {"handle_event", "loop_end"} /\ NothingDone)

\* C6 (as claimed): a request that declares broadcast_tx, get_fees or get_utxos
\* never runs the bitcoin lookup.
C6_OtherTypesNeverRunLookup ==
    (InIteration /\ IsWellFormedRequest(CurrentEvent)
        /\ DeclaredType(CurrentEvent) \in {"broadcast_tx", "get_fees", "get_utxos"})
    => (pc \notin LookupPcs /\ lookup_result.error = "none")

\* C7: a request to this server with a correlation tag whose body is not JSON
\* gets no lookup, no indexer call and no response; handle_event returns Ok
\* and the iteration ends.
C7_UnparsableBodyDiscarded ==
    (InIteration /\ CurrentEvent.kind = BALANCEBRIDGE_REQUEST_KIND
        /\ AddressedTo(CurrentEvent, ServerKey) /\ HasCorrelationTag(CurrentEvent)
        /\ ~IsJson(CurrentEvent.content))
    => /\ pc \in {"handle_event", "loop_end"}
       /\ NothingDone
       /\ pc = "loop_end" => (returned = "Ok" /\ log = "JSON parse failed")

\* handle_event has returned from a request whose body is cut off.
C7_Witness ==
    /\ pc = "loop_end"
    /\ InIteration
    /\ AddressedTo(CurrentEvent, ServerKey)
    /\ HasCorrelationTag(CurrentEvent)
    /\ CurrentEvent.content = BodyTruncated
    /\ returned = "Ok"
    /\ log = "JSON parse failed"

\* C8: between iterations, every correlation id has had as many lookups and as
\* many responses handed to send_event as well-formed requests carrying it
\* were received: a repeated request is handled and answered again.
C8_RequestsNotDeduplicated ==
    pc = "recv" =>
        \A r \in ReqIds : lookups[r] = delivered[r] /\ responses[r] = delivered[r]

\* Correlation id "r1" was received twice and answered twice.
C8_Witness ==
    /\ pc = "recv"
    /\ delivered["r1"] = 2
    /\ lookups["r1"] = 2
    /\ responses["r1"] = 2

\* C9: once the loop over the addresses derived from an extended public key
\* is over, the lookup result is Ok whatever queries failed; the transaction
\* ids of the result are those of the successful queries, the balances are
\* zero when every balance query failed, and the response has status ok.
\* Within the loop no error is recorded.
C9_XpubAggregationNeverFails ==
    /\ pc \in {"xpub_balance", "xpub_txs", "xpub_finish"} => lookup_result.error = "none"
    /\ XpubLookupDone =>
          /\ lookup_result.ok
          /\ {t.txid : t \in ToSet(lookup_result.value.transactions)}
                = UNION {ToSet(calls[k].result.value) :
                            k \in {j \in DOMAIN calls : IsTxsCall(calls[j]) /\ calls[j].result.ok}}
          /\ (\A k \in DOMAIN calls : IsBalanceCall(calls[k]) => ~calls[k].result.ok)
                => /\ lookup_result.value.confirmed_balance = 0
                   /\ lookup_result.value.unconfirmed_balance = 0
          /\ pc # "respond" => ResponseBody.status = "ok"

\* Every balance query and every transaction query of an extended-key request
\* failed, and the response was published.
C9_Witness ==
    /\ pc = "loop_end"
    /\ log = "RESPONSE SENT"
    /\ query = GoodXpub
    /\ Len(calls) = 2 * GapLimit
    /\ \A k \in DOMAIN calls : ~calls[k].result.ok
    /\ lookup_result.ok
    /\ ResponseBody.status = "ok"

\* C10: for an extended public key, the balances of the result and of the
\* response are the sums of the confirmed and unconfirmed balances the indexer
\* returned to the successful balance queries, and there was exactly one
\* balance query for each derived address and none for any other.
C10_XpubBalancesAreSums ==
    (XpubLookupDone /\ lookup_result.ok) =>
        /\ lookup_result.value.confirmed_balance = SumReturned(calls, "confirmed")
        /\ lookup_result.value.unconfirmed_balance = SumReturned(calls, "unconfirmed")
        /\ \A i \in 1..GapLimit :
              Cardinality({k \in DOMAIN calls :
                  IsBalanceCall(calls[k])
                      /\ calls[k].address = derived_address(query, i - 1)}) = 1
        /\ Cardinality({k \in DOMAIN calls : IsBalanceCall(calls[k])}) = GapLimit
        /\ pc # "respond" =>
              /\ ResponseBody.result.confirmed_balance = SumReturned(calls, "confirmed")
              /\ ResponseBody.result.unconfirmed_balance = SumReturned(calls, "unconfirmed")

\* One balance query of an extended-key request failed, another returned
\* (1, 2), and the response carries 1 and 2.
C10_Witness ==
    /\ pc = "loop_end"
    /\ query = GoodXpub
    /\ \E k \in DOMAIN calls : IsBalanceCall(calls[k]) /\ ~calls[k].result.ok
    /\ \E k \in DOMAIN calls :
          IsBalanceCall(calls[k]) /\ calls[k].result.ok
              /\ calls[k].result.value.unconfirmed = 2
    /\ ResponseBody.result.unconfirmed_balance = 2
    /\ ResponseBody.result.confirmed_balance = 1

\* The "query" member of the body, when the body is an object that has a string
\* one; "" otherwise.
RequestedQuery(e) ==
    LET v == json_value_of(e.content)
    IN  IF v.t = "object" /\ "query" \in DOMAIN v.fields /\ v.fields["query"].t = "string"
        THEN v.fields["query"].v
        ELSE ""

\* The lookup has returned to handle_event.
LookupReturned == pc \in {"respond", "send_event", "loop_end"} /\ lookup_result.error # "none"

BalanceCalls == {k \in DOMAIN calls : IsBalanceCall(calls[k])}
TxsCalls == {k \in DOMAIN calls : IsTxsCall(calls[k])}

\* The response of this iteration is an error response to the requester with
\* the correlation id of the request, handed to send_event once.
ErrorResponseToRequester ==
    /\ sends = 1
    /\ response.kind = BALANCEBRIDGE_RESPONSE_KIND
    /\ ResponseBody.status = "error"
    /\ ResponseBody.req = CorrelationId(CurrentEvent)
    /\ <<"req", CorrelationId(CurrentEvent)>> \in ToSet(response.tags)
    /\ <<"p", to_hex(CurrentEvent.pubkey)>> \in ToSet(response.tags)

\* C11 (as claimed): the transaction ids of every successful lookup result,
\* of a single address or of an extended public key, are in strictly
\* increasing order: sorted, and no id twice.
C11_LookupTxidsSortedAndUnique ==
    lookup_result.ok =>
        LET txs == lookup_result.value.transactions
        IN  \A i, j \in DOMAIN txs :
                i < j => txid_rank(txs[i].txid) < txid_rank(txs[j].txid)

\* C13 (as claimed): once the lookup of a single address has returned, there
\* was exactly one balance call and exactly one transaction-id call, both for
\* that address, whatever their outcome.
C13_OneBalanceAndOneTxsCall ==
    (InIteration /\ is_bitcoin_address(query) /\ LookupReturned) =>
        /\ Cardinality(BalanceCalls) = 1
        /\ Cardinality(TxsCalls) = 1
        /\ \A k \in DOMAIN calls : calls[k].address = query

\* C13 (amended): once the lookup of a single address has returned, there was
\* exactly one balance call for that address, made first; exactly one
\* transaction-id call for it when the balance call succeeded, whatever the
\* outcome of the transaction-id call; and no transaction-id call, the lookup
\* failing with the error of the balance call, when the balance call failed.
C13_OneBalanceCallThenOneTxsCall ==
    /\ pc = "address_txs" => (Len(calls) = 1 /\ IsBalanceCall(calls[1]) /\ calls[1].result.ok)
    /\ (InIteration /\ is_bitcoin_address(query) /\ LookupReturned) =>
          /\ Cardinality(BalanceCalls) = 1
          /\ IsBalanceCall(calls[1])
          /\ \A k \in DOMAIN calls : calls[k].address = query
          /\ calls[1].result.ok => Cardinality(TxsCalls) = 1
          /\ ~calls[1].result.ok =>
                /\ TxsCalls = {}
                /\ ~lookup_result.ok
                /\ lookup_result.error = calls[1].result.error

\* The balance call of a single-address request succeeded, its transaction-id
\* call failed, and the lookup has returned.
C13_Witness ==
    /\ pc = "respond"
    /\ query = GoodAddress
    /\ Len(calls) = 2
    /\ calls[1].result.ok
    /\ IsTxsCall(calls[2])
    /\ ~calls[2].result.ok
    /\ ~lookup_result.ok

\* C14: a request whose query is neither an extended public key nor an
\* address (the empty string of a body without a string "query" included)
\* makes the lookup fail with the invalid-query error, without any indexer
\* call; when the iteration is over, one response with status "error", that
\* error, the correlation id of the request and the requester's "p" tag was
\* handed to send_event.
C14_InvalidQueryAnsweredWithError ==
    (InIteration /\ IsWellFormedRequest(CurrentEvent)
        /\ ~is_xpub(RequestedQuery(CurrentEvent))
        /\ ~is_bitcoin_address(RequestedQuery(CurrentEvent)))
    => /\ calls = <<>>
       /\ pc \notin {"derive_addresses", "address_balance", "address_txs", "xpub_balance",
                      "xpub_txs", "xpub_finish"}
       /\ pc \in {"respond", "send_event", "loop_end"} =>
             (~lookup_result.ok /\ lookup_result.error = "Invalid query: not an address or xpub")
       /\ pc = "loop_end" =>
             (ErrorResponseToRequester
                 /\ ResponseBody.error = "Invalid query: not an address or xpub")

\* A bitcoin_lookup request without a "query" member was answered with the
\* invalid-query error.
C14_Witness ==
    /\ pc = "loop_end"
    /\ IsWellFormedRequest(CurrentEvent)
    /\ CurrentEvent.content = BodyNoQuery
    /\ query = ""
    /\ calls = <<>>
    /\ sends = 1
    /\ ResponseBody.status = "error"
    /\ ResponseBody.req = CorrelationId(CurrentEvent)

\* C15: a request whose query is an extended public key that cannot be
\* derived makes no indexer call; when the iteration is over, one response
\* with status "error", the derivation error, the correlation id of the
\* request and the requester's "p" tag was handed to send_event.
C15_DerivationFailureAnsweredWithError ==
    (InIteration /\ IsWellFormedRequest(CurrentEvent)
        /\ is_xpub(RequestedQuery(CurrentEvent))
        /\ ~derive_addresses(RequestedQuery(CurrentEvent), GapLimit).ok)
    => /\ calls = <<>>
       /\ pc \notin {"address_balance", "address_txs", "xpub_balance", "xpub_txs",
                      "xpub_finish"}
       /\ pc \in {"respond", "send_event", "loop_end"} =>
             (~lookup_result.ok
                 /\ lookup_result.error
                        = derive_addresses(RequestedQuery(CurrentEvent), GapLimit).error)
       /\ pc = "loop_end" =>
             (ErrorResponseToRequester /\ ResponseBody.error = lookup_result.error)

\* A request for an extended public key with a wrong checksum was answered
\* with an error response, published, without any indexer call.
C15_Witness ==
    /\ pc = "loop_end"
    /\ log = "RESPONSE SENT"
    /\ CurrentEvent.content = BodyBadXpub
    /\ query = BadXpub
    /\ calls = <<>>
    /\ ResponseBody.status = "error"
    /\ ResponseBody.req = CorrelationId(CurrentEvent)

\* The places of the listening loop.
LoopPlaces ==
    {"recv", "handle_event", "respond", "send_event", "loop_end", "awaiting_indexer"}
        \cup LookupPcs

C19_HangingIndexerNeverStallsLoop ==
    /\ (pc = "process_bitcoin_lookup") ~> (pc = "send_event")
    /\ (pc = "process_bitcoin_lookup") ~> (pc = "recv")

\* The indexer answered none of the balance requests for the addresses of an
\* extended public key; each ended as a failure and the response was published.
C19_Witness ==
    /\ pc = "loop_end"
    /\ log = "RESPONSE SENT"
    /\ query = GoodXpub
    /\ Cardinality(BalanceCalls) = GapLimit
    /\ \A k \in BalanceCalls : calls[k].timed_out /\ ~calls[k].result.ok

\* C20 (as claimed): when the iteration of a broadcast_tx request is over and
\* the indexer answered no exchange made for it, the response payload has
\* success = false and error = "Timeout", and handle_event returned Ok.
C20_BroadcastTimeoutReported ==
    (pc = "loop_end" /\ InIteration /\ IsWellFormedRequest(CurrentEvent)
        /\ DeclaredType(CurrentEvent) = "broadcast_tx"
        /\ \A k \in DOMAIN calls : calls[k].timed_out)
    => /\ returned = "Ok"
       /\ sends = 1
       /\ "success" \in DOMAIN ResponseBody
       /\ ResponseBody.success = FALSE
       /\ ResponseBody.error = "Timeout"

\* C12 (as claimed): the transaction list get_addresses_balance_and_txs
\* returns has no two entries with the same txid.
C12_AggregateTxidsUnique ==
    pc = "aggregate_done" =>
        \A i, j \in DOMAIN all_transactions :
            i # j => all_transactions[i].txid # all_transactions[j].txid

\* C16 (as claimed): a supervised loop that has ended with an error is
\* started again: the request/response loop after its backoff, and the
\* listening task after start_listening returned an error.
C16_EveryLoopRestarted ==
    /\ (ns_pc = "sleeping") ~> (ns_pc = "running")
    /\ (pc = "task_ended" /\ log = "Nostr handler exited with error")
          ~> (pc \in {"new_relays", "start_listening", "recv"})

NewReturned == new_result # "pending"

\* C18 (as claimed): NostrHandler::new fails exactly when no relay was
\* added, and a failed new has not subscribed and is not followed by
\* start_listening.
C18_FailsExactlyWithoutRelays ==
    /\ NewReturned => ((new_result # "Ok") <=> (pool = {}))
    /\ (NewReturned /\ new_result # "Ok") => (~subscribed /\ pc = "task_ended")

\* C18 (amended): NostrHandler::new fails with "Failed to add any relays",
\* before the indexer client is built and before subscribing, exactly when
\* no relay of the list was parsed and added; with at least one relay added
\* the relays that failed do not make it fail, and it then fails only when
\* the indexer client cannot be built or the subscription fails.  A failed
\* new has not subscribed and is not followed by start_listening, and
\* listening begins only with a relay in the pool.
C18_NoRelayNoHandler ==
    /\ pc \in {"new_electrs", "new_subscribe", "start_listening", "recv"} => pool # {}
    /\ NewReturned =>
          /\ (new_result = "Failed to add any relays") <=> (pool = {})
          /\ new_result \in {"Ok", "Failed to add any relays",
                              "Failed to create HTTP client", "subscribe failed"}
          /\ new_result = "Ok" <=> subscribed
          /\ new_result # "Ok" => (pc = "task_ended" /\ log = "Failed to start Nostr handler")
    /\ pc \in {"start_listening", "recv"} => (new_result = "Ok" /\ subscribed)

\* The listening loop was entered with one relay in the pool, from a list of
\* three of which one does not parse and one could not be added.
C18_Witness ==
    /\ pc = "recv"
    /\ relay_urls = <<"not a url", "wss://nos.lol", "wss://relay.damus.io">>
    /\ pool = {"wss://relay.damus.io"}
    /\ added_count = 1
    /\ new_result = "Ok"

\* C21 (as claimed): a get_fees request whose indexer exchanges all failed is
\* answered with the default fee rates (fast, medium, slow), not with an error
\* response.
C21_FeesFallBackToDefaults ==
    (pc = "loop_end" /\ InIteration /\ IsWellFormedRequest(CurrentEvent)
        /\ DeclaredType(CurrentEvent) = "get_fees"
        /\ \A k \in DOMAIN calls : ~calls[k].result.ok)
    => /\ sends = 1
       /\ {"fast", "medium", "slow"} \subseteq DOMAIN ResponseBody
       /\ ResponseBody.status # "error"

\* C22: an event whose kind is not 30078 is ignored, whatever its tags: it is
\* never handed to handle_event, and no indexer call, no response event and
\* no send_event call comes of it.
C22_OtherKindIgnored ==
    (InIteration /\ CurrentEvent.kind # BALANCEBRIDGE_REQUEST_KIND)
    => (NotHandled /\ NothingDone /\ req_id = "" /\ lookup_result.error = "none")

\* An event of kind 30079 with a "p" tag naming this server, a "req" tag and
\* a lookup body was received and its iteration is over.
C22_Witness ==
    /\ pc = "loop_end"
    /\ InIteration
    /\ CurrentEvent.kind = BALANCEBRIDGE_RESPONSE_KIND
    /\ CurrentEvent.tags = <<<<"p", to_hex(ServerKey)>>, <<"req", "r1">>>>
    /\ CurrentEvent.content = BodyAddress
    /\ returned = "pending"

\* C23: the aggregation of transaction ids is idempotent: over a list of
\* addresses and over that list followed by itself, against the same
\* indexer, it yields the same list of ids, and no id is in it twice.
C23_AggregationIdempotent ==
    pc = "collect_done" =>
        /\ lookup_result.ok
        /\ all_txids = [i \in DOMAIN lookup_result.value.transactions |->
                            lookup_result.value.transactions[i].txid]
        /\ \A i, j \in DOMAIN all_txids : i # j => all_txids[i] # all_txids[j]

\* Both runs are over: two addresses, each queried twice in the second run,
\* share the id aa11, and the indexer returned the ids of one of them out of
\* order.
C23_Witness ==
    /\ pc = "collect_done"
    /\ addresses = <<GoodAddress, OtherAddress, GoodAddress, OtherAddress>>
    /\ indexer_txs[GoodAddress] = Ok(<<"bb22", "aa11">>)
    /\ indexer_txs[OtherAddress] = Ok(<<"aa11">>)
    /\ all_txids = <<"aa11", "bb22">>

\* The place of each step in the handling of one request: the query is
\* classified, addresses are derived, the indexer is queried, the answers are
\* aggregated, the response is built and then published.
StepRank(p) ==
    CASE p = "handle_event" -> 1
      [] p = "process_bitcoin_lookup" -> 2
      [] p = "derive_addresses" -> 3
      [] p \in {"xpub_balance", "xpub_txs", "address_balance", "address_txs",
                "awaiting_indexer"} -> 4
      [] p = "xpub_finish" -> 5
      [] p = "respond" -> 6
      [] p = "send_event" -> 7
      [] p = "loop_end" -> 8
      [] OTHER -> 0

\* C24: within the handling of one request the steps come in a fixed order:
\* classification, derivation (extended public keys only), the indexer
\* queries, aggregation, one publish.  No step goes back to an earlier one,
\* the response is handed to send_event once, after the lookup has returned
\* and with every indexer call made, and no indexer call follows it.
C24_FixedOrderOfSteps ==
    [][pc # "loop_end" =>
          /\ StepRank(pc') >= StepRank(pc)
          /\ pc' = "derive_addresses" => (pc = "process_bitcoin_lookup" /\ is_xpub(query))
          /\ calls' # calls => (StepRank(pc) = 4 /\ sends = 0 /\ sends' = 0)
          /\ sends' # sends => /\ pc = "send_event"
                               /\ sends = 0 /\ sends' = 1
                               /\ lookup_result.error # "none"
                               /\ calls' = calls
                               /\ pc' = "loop_end"]_vars

\* A request for an extended public key went through every step: the
\* addresses were derived, each was queried, and the aggregate was published.
C24_Witness ==
    /\ pc = "loop_end"
    /\ is_xpub(query)
    /\ Len(addresses) = GapLimit
    /\ Len(calls) = 2 * GapLimit
    /\ lookup_result.ok
    /\ sends = 1

\* C25: when send_event fails, handle_event has made one publish attempt and
\* returns Ok; the only step that follows is the end of the iteration, back to
\* receiving, and nothing more is handed to send_event for that request.
C25_FailedPublishNotRetried ==
    [][/\ (pc = "send_event" /\ log' = "RESPONSE SEND ERROR") =>
             /\ pc' = "loop_end"
             /\ returned' = "Ok"
             /\ sends' = 1
             /\ responses'[req_id] = responses[req_id] + 1
       /\ log = "RESPONSE SEND ERROR" =>
             /\ pc = "loop_end" /\ pc' = "recv"
             /\ sends' = 0
             /\ responses' = responses
             /\ submitted' = submitted]_vars

\* The response to a successful lookup could not be published; handle_event
\* has returned Ok after its one attempt.
C25_Witness ==
    /\ pc = "loop_end"
    /\ log = "RESPONSE SEND ERROR"
    /\ lookup_result.ok
    /\ sends = 1
    /\ returned = "Ok"
    /\ responses[req_id] = 1

\* C26: the loop handles one request at a time: a notification is received
\* only when every request taken up before it has had its response handed to
\* send_event, at most one request is between the start of its lookup and
\* its response, and the responses are handed to send_event in the order in
\* which their requests were taken up.
C26_SequentialDispatch ==
    [][/\ (notification' # notification /\ notification'.type # "None") =>
             (pc = "recv" /\ submitted = started)
       /\ Len(started') - Len(submitted') \in {0, 1}
       /\ \A i \in DOMAIN submitted' : submitted'[i] = started'[i]
       /\ pc' = "recv" => submitted' = started']_vars

\* Two requests with different correlation ids were taken up one after the
\* other, and their responses were handed to send_event in that order.
C26_Witness ==
    /\ pc = "recv"
    /\ started = <<"r2", "r1">>
    /\ submitted = <<"r2", "r1">>

\* C27: for an extended public key the indexer is asked, for each derived
\* address in derivation order, first for the balance and then for the
\* transaction ids, once each and whatever the balance query returned: the
\* calls made so far are the start of that sequence, and once the loop is
\* over they are all of it (two for each derived address).
C27_TwoQueriesPerDerivedAddress ==
    (InIteration /\ addresses # <<>>) =>
        /\ Len(calls) <= 2 * Len(addresses)
        /\ \A k \in DOMAIN calls :
              /\ calls[k].address = addresses[(k + 1) \div 2]
              /\ calls[k].op = IF k % 2 = 1 THEN "get_address_balance"
                                            ELSE "get_address_txs"
        /\ pc \in {"xpub_finish", "respond", "send_event", "loop_end"} =>
              Len(calls) = 2 * Len(addresses)
        /\ pc = "xpub_txs" => Len(calls) = 2 * next_address - 1
        /\ pc = "xpub_balance" => Len(calls) = 2 * (next_address - 1)

\* The loop is over; the balance query of the first derived address failed,
\* its transaction query was made all the same and returned ids, and so did
\* the queries of the addresses after it.
C27_Witness ==
    /\ XpubLookupDone
    /\ Len(calls) = 2 * GapLimit
    /\ ~calls[1].result.ok
    /\ calls[2].op = "get_address_txs"
    /\ calls[2].address = calls[1].address
    /\ calls[2].result.ok
    /\ ~calls[2 * GapLimit].result.ok
    /\ lookup_result.ok

C29_PairingRecordOnlyRead ==
    [][/\ pairing'.android_pubkey = pairing.android_pubkey
       /\ pairing'.relays = pairing.relays]_vars

\* A request was answered and then an event of the request kind that is not
\* a request was received and ignored; the pairing record is as it was when
\* the loop began.
C29_Witness ==
    /\ pc = "loop_end"
    /\ log = "ignored kind=30078"
    /\ Len(submitted) = 1
    /\ pairing = NoPairing

\* The transaction-detail exchange of a history entry did not yield an
\* amount: no connection, a status that is not a success, or a body that is
\* not JSON.
AmountFailed(tx) ==
    ~tx.detail.connected \/ ~is_success(tx.detail.status) \/ ~tx.detail.parses

\* C30: whenever the indexer answered the history request of
\* get_address_transactions with a success status and a list of entries, the
\* call returns Ok with one entry for each transaction of the history, in
\* the history's order; an entry whose amount could not be computed has
\* amount 0, and every other entry has the amount of its transaction.
C30_AmountFailureDefaultsToZero ==
    \A k \in DOMAIN calls :
        (calls[k].op = "get_address_transactions"
            /\ calls[k].reply.connected /\ is_success(calls[k].reply.status)
            /\ calls[k].reply.parses) =>
            LET txs == calls[k].reply.txs
                result == calls[k].result
            IN  /\ result.ok
                /\ Len(result.value) = Len(txs)
                /\ \A i \in DOMAIN txs :
                      /\ result.value[i].txid = txs[i].txid
                      /\ result.value[i].amount =
                            IF AmountFailed(txs[i]) THEN 0 ELSE txs[i].detail.amount

\* The history of an address had three transactions: the indexer did not
\* have the first, the request for the second failed, the third has outputs
\* of 700 to the address.  All three were returned, with amounts 0, 0, 700.
C30_Witness ==
    \E k \in DOMAIN calls :
        /\ calls[k].op = "get_address_transactions"
        /\ calls[k].reply.txs = <<TxN, TxF, TxA>>
        /\ calls[k].result.ok
        /\ Len(calls[k].result.value) = 3
        /\ calls[k].result.value[1].amount = 0
        /\ calls[k].result.value[2].amount = 0
        /\ calls[k].result.value[3].amount = 700

C32_ValidatedIdIsEchoedId ==
    /\ log # "No req tag found"
    /\ (InIteration /\ pc \notin {"recv", "loop_end"}) =>
          is_balancebridge_request(CurrentEvent, ServerKey).some
    /\ (InIteration /\ req_id # "") =>
          /\ req_id = is_balancebridge_request(CurrentEvent, ServerKey).value
          /\ req_id = CorrelationId(CurrentEvent)
    /\ (InIteration /\ pc = "loop_end" /\ returned = "Ok") =>
          req_id = is_balancebridge_request(CurrentEvent, ServerKey).value
    /\ response.kind # 0 =>
          /\ ResponseBody.req = is_balancebridge_request(CurrentEvent, ServerKey).value
          /\ response.tags[2] = <<"req", CorrelationId(CurrentEvent)>>

\* An event with the tags req r1, p (this server), req r2 was accepted and
\* answered: the id handle_event extracted and echoed is r2.
C32_Witness ==
    /\ pc = "loop_end"
    /\ CurrentEvent.tags = <<<<"req", "r1">>, <<"p", to_hex(ServerKey)>>, <<"req", "r2">>>>
    /\ is_balancebridge_request(CurrentEvent, ServerKey) = Some("r2")
    /\ req_id = "r2"
    /\ sends = 1
    /\ ResponseBody.req = "r2"
    /\ submitted = <<"r2">>

\* What an event is accepted for: its kind and its tags.
Acceptable(e) ==
    /\ e.kind = BALANCEBRIDGE_REQUEST_KIND
    /\ AddressedTo(e, ServerKey)
    /\ HasCorrelationTag(e)

=============================================================================
